---- MODULE Spec2Model ----
(***************************************************************************)
(* MoneyTalk web application: the AI insights view (AIInsights), its       *)
(* localStorage recommendation cache, and generateBasicInsights, together  *)
(* with the Dashboard state that feeds them.                               *)
(*                                                                         *)
(* Time.  `now' is Date.now() in milliseconds, counted from local midnight *)
(* of Sunday 2025-06-01 (day 0).  A transaction's created_at is kept as    *)
(* its local calendar day number relative to that day: every date test of  *)
(* generateBasicInsights (week windows that run from Sunday 00:00:00.000   *)
(* to Saturday 23:59:59.999, getDay, getMonth) depends on the calendar day *)
(* only.  Amounts are integers; a percentage is the exact fraction         *)
(* [num, den] that the floating-point expression approximates.             *)
(***************************************************************************)
EXTENDS Integers, Sequences, FiniteSets, TLC

VARIABLES
    user,                     \* AuthContext: the signed-in user
    activeTab,                \* Dashboard: the tab shown; AIInsights is mounted iff "insights"
    transactions,             \* Dashboard: in-memory transaction list
    budgetLimitsVersion,      \* Dashboard: bumped by every successful budget save
    now,                      \* wall clock, ms
    storage,                  \* localStorage['ai-recommendations-cache'] (string or null)
    storedFor,                \* history: userId of the request whose result storage holds
    inst,                     \* number of AIInsights instances mounted so far
    basicInsights,            \* AIInsights state
    aiRecommendations,        \* AIInsights state: the displayed recommendations
    cachedAIRecommendations,  \* AIInsights state
    isRefreshingAI,           \* AIInsights state
    lastAIRefresh,            \* AIInsights state
    budgetLimits,             \* AIInsights state
    aiRecommendationsError,   \* AIInsights state
    limitsLoading,            \* a loadBudgetLimits call of the mounted instance is awaiting the store
    inflight,                 \* recommendation requests awaiting their response
    reqCount,                 \* history: number of requests sent to the recommendation endpoint
    lastEvent,                \* history: the handler that ran last and what it observed
    audioURL,                 \* TransactionRecorder state: the recording that is shown
    transcript,               \* TransactionRecorder state
    analysisResult,           \* TransactionRecorder state
    loading,                  \* TransactionRecorder state
    showManualForm,           \* TransactionRecorder state
    error,                    \* TransactionRecorder state: the text of the red error box
    analyses,                 \* analyze-audio requests awaiting their response
    saves,                    \* transaction inserts awaiting the store
    alertText,                \* the text of the last window.alert
    lastWrite,                \* history: the values of the last insert or update sent to the store
    proxyReply,               \* history: the request the analyze-audio function served (SpecProxy)
    editorLimits,             \* BudgetLimitsManager state: budgetLimits, the list being edited
    managerLoading,           \* BudgetLimitsManager state: loading
    saving,                   \* BudgetLimitsManager state
    limitsError,              \* BudgetLimitsManager state: error
    success,                  \* BudgetLimitsManager state
    saveJob,                  \* the saveBudgetLimits call awaiting the store, and the step it is at
    storedLimits,             \* the rows of table budget_limits
    profileKey,               \* user_profiles.openai_api_key of the signed-in user ("" when null)
    subscriptionStatus,       \* stripe_user_subscriptions.subscription_status of the user's customer
    hasOpenAIKey,             \* Dashboard state
    checkingApiKey,           \* Dashboard state
    lastServed                \* history: the last request an edge function served

vars == <<user, activeTab, transactions, budgetLimitsVersion, now, storage,
          storedFor, inst, basicInsights, aiRecommendations,
          cachedAIRecommendations, isRefreshingAI, lastAIRefresh, budgetLimits,
          aiRecommendationsError, limitsLoading, inflight, reqCount, lastEvent,
          audioURL, transcript, analysisResult, loading, showManualForm, error,
          analyses, saves, alertText, lastWrite, proxyReply, editorLimits,
          managerLoading, saving, limitsError, success, saveJob, storedLimits,
          profileKey, subscriptionStatus, hasOpenAIKey, checkingApiKey, lastServed>>

\* the state of TransactionRecorder and of its requests
recorderVars ==
    <<audioURL, transcript, analysisResult, loading, showManualForm, error,
      analyses, saves>>

\* the Dashboard, the insights view and its cache
dashboardVars ==
    <<user, activeTab, transactions, budgetLimitsVersion, now, storage,
      storedFor, inst, basicInsights, aiRecommendations,
      cachedAIRecommendations, isRefreshingAI, lastAIRefresh, budgetLimits,
      aiRecommendationsError, limitsLoading, inflight, reqCount, lastEvent>>

\* everything outside the insights view and the Dashboard's list
appVars ==
    <<audioURL, transcript, analysisResult, loading, showManualForm, error,
      analyses, saves, alertText, lastWrite, proxyReply,
      editorLimits, managerLoading, saving, limitsError, success, saveJob,
      storedLimits, profileKey, subscriptionStatus, hasOpenAIKey, checkingApiKey,
      lastServed>>

\* the budget editor, the key gate of the Dashboard and what they read in the store
sideVars ==
    <<editorLimits, managerLoading, saving, limitsError, success, saveJob,
      storedLimits, profileKey, subscriptionStatus, hasOpenAIKey, checkingApiKey,
      lastServed>>

----------------------------------------------------------------------------
(* Bounds *)

MaxMounts == 2       \* AIInsights instances per behaviour
MaxRequests == 2     \* recommendation requests per behaviour
MaxRows == 1         \* rows in the list when a row is added through a form
MaxTx == 3           \* length of the in-memory transaction list
MaxSaves == 1        \* budget saves per behaviour

----------------------------------------------------------------------------
(* Calendar *)

DayMs == 24 * 60 * 60 * 1000

cacheValidDuration == 7 * 24 * 60 * 60 * 1000

\* the local calendar day of a millisecond timestamp
Today(ms) == ms \div DayMs

\* Date.getDay(): 0 = Sunday ... 6 = Saturday
getDay(d) == d % 7

\* Date.getFullYear() * 12 + Date.getMonth() for the days around 2025-06-01
YearMonth(d) ==
    IF d < -61 THEN 2025 * 12 + 2
    ELSE IF d < -31 THEN 2025 * 12 + 3
    ELSE IF d < 0 THEN 2025 * 12 + 4
    ELSE IF d < 30 THEN 2025 * 12 + 5
    ELSE 2025 * 12 + 6

\* date-fns startOfWeek / endOfWeek (weekStartsOn 0) and subWeeks, on days
startOfWeek(d) == d - getDay(d)
endOfWeek(d) == d - getDay(d) + 6
subWeeks(d, n) == d - 7 * n
isWithinInterval(d, start, end) == start <= d /\ d <= end

----------------------------------------------------------------------------
(* generateBasicInsights *)

Abs(x) == IF x < 0 THEN -x ELSE x

RECURSIVE SumAmounts(_)
SumAmounts(txs) ==
    IF txs = <<>> THEN 0
    ELSE txs[1].amount + SumAmounts(Tail(txs))

InSeq(s, x) == \E i \in 1..Len(s) : s[i] = x

\* the keys of a Record<string, number> built by reduce, in insertion order
RECURSIVE CategoryKeys(_)
CategoryKeys(txs) ==
    IF txs = <<>> THEN <<>>
    ELSE LET rest == CategoryKeys(SubSeq(txs, 1, Len(txs) - 1))
             c == txs[Len(txs)].category
         IN  IF InSeq(rest, c) THEN rest ELSE Append(rest, c)

\* acc[category] || 0 for the accumulator reduce builds from txs
CategoryTotal(txs, c) == SumAmounts(SelectSeq(txs, LAMBDA t : t.category = c))

Expenses(txs) == SelectSeq(txs, LAMBDA t : t.type = "expense")

\* new Set([...a, ...b]) in iteration order
RECURSIVE UnionKeys(_, _)
UnionKeys(a, b) ==
    IF b = <<>> THEN a
    ELSE UnionKeys(IF InSeq(a, b[1]) THEN a ELSE Append(a, b[1]), Tail(b))

\* TrendOf without Math.abs on the percentage
TrendOfSigned(category, lastWeekAmount, lastMonthAmount) ==
    LET num == (lastWeekAmount - lastMonthAmount) * 100
    IN  [category |-> category,
         amount |-> lastWeekAmount,
         lastMonthAmount |-> lastMonthAmount,
         trend |-> IF lastMonthAmount > 0
                   THEN IF num > 5 * lastMonthAmount THEN "increasing"
                        ELSE IF num < (-5) * lastMonthAmount THEN "decreasing"
                        ELSE "stable"
                   ELSE IF lastWeekAmount > 0 THEN "increasing" ELSE "stable",
         percentage |-> IF lastMonthAmount > 0
                        THEN [num |-> num, den |-> lastMonthAmount]
                        ELSE IF lastWeekAmount > 0 THEN [num |-> 100, den |-> 1]
                        ELSE [num |-> 0, den |-> 1],
         isNew |-> (lastMonthAmount = 0 /\ lastWeekAmount > 0)]

\* TrendOf with the 5% thresholds inclusive
TrendOfInclusive(category, lastWeekAmount, lastMonthAmount) ==
    LET num == (lastWeekAmount - lastMonthAmount) * 100
    IN  [category |-> category,
         amount |-> lastWeekAmount,
         lastMonthAmount |-> lastMonthAmount,
         trend |-> IF lastMonthAmount > 0
                   THEN IF num >= 5 * lastMonthAmount THEN "increasing"
                        ELSE IF num <= (-5) * lastMonthAmount THEN "decreasing"
                        ELSE "stable"
                   ELSE IF lastWeekAmount > 0 THEN "increasing" ELSE "stable",
         percentage |-> IF lastMonthAmount > 0
                        THEN [num |-> Abs(num), den |-> lastMonthAmount]
                        ELSE IF lastWeekAmount > 0 THEN [num |-> 100, den |-> 1]
                        ELSE [num |-> 0, den |-> 1],
         isNew |-> (lastMonthAmount = 0 /\ lastWeekAmount > 0)]

TrendOf(category, lastWeekAmount, lastMonthAmount) ==
    LET num == (lastWeekAmount - lastMonthAmount) * 100
        trend == IF lastMonthAmount > 0
                 THEN IF num > 5 * lastMonthAmount THEN "increasing"
                      ELSE IF num < (-5) * lastMonthAmount THEN "decreasing"
                      ELSE "stable"
                 ELSE IF lastWeekAmount > 0 THEN "increasing" ELSE "stable"
        percentage == IF lastMonthAmount > 0
                      THEN [num |-> Abs(num), den |-> lastMonthAmount]
                      ELSE IF lastWeekAmount > 0 THEN [num |-> 100, den |-> 1]
                      ELSE [num |-> 0, den |-> 1]
    IN  [category |-> category,
         amount |-> lastWeekAmount,
         lastMonthAmount |-> lastMonthAmount,
         trend |-> trend,
         percentage |-> percentage,
         isNew |-> (lastMonthAmount = 0 /\ lastWeekAmount > 0)]

\* Array.prototype.sort((a, b) => b.amount - a.amount): stable, descending
RECURSIVE InsertByAmount(_, _)
InsertByAmount(sorted, x) ==
    IF sorted = <<>> THEN <<x>>
    ELSE IF sorted[1].amount >= x.amount
         THEN <<sorted[1]>> \o InsertByAmount(Tail(sorted), x)
         ELSE <<x>> \o sorted

RECURSIVE SortByAmountDesc(_)
SortByAmountDesc(s) ==
    IF s = <<>> THEN <<>>
    ELSE InsertByAmount(SortByAmountDesc(SubSeq(s, 1, Len(s) - 1)), s[Len(s)])

TopN == 5

Slice(s, n) == SubSeq(s, 1, IF Len(s) < n THEN Len(s) ELSE n)

lastWeekTransactions(txs, today) ==
    SelectSeq(txs, LAMBDA t :
        t.type = "expense" /\
        isWithinInterval(t.created_at, startOfWeek(subWeeks(today, 1)),
                         endOfWeek(subWeeks(today, 1))))

sameWeekLastMonthTransactions(txs, today) ==
    SelectSeq(txs, LAMBDA t :
        t.type = "expense" /\
        isWithinInterval(t.created_at, startOfWeek(subWeeks(today, 5)),
                         endOfWeek(subWeeks(today, 5))))

\* spendingTrends without the filter on amount > 0
spendingTrendsUnfiltered(txs, today) ==
    LET lw == lastWeekTransactions(txs, today)
        lm == sameWeekLastMonthTransactions(txs, today)
        allCategories == UnionKeys(CategoryKeys(lw), CategoryKeys(lm))
        mapped == [i \in 1..Len(allCategories) |->
                     TrendOf(allCategories[i],
                             CategoryTotal(lw, allCategories[i]),
                             CategoryTotal(lm, allCategories[i]))]
    IN  Slice(SortByAmountDesc(mapped), TopN)

\* spendingTrends with the cut taken before the sort
spendingTrendsCutFirst(txs, today) ==
    LET lw == lastWeekTransactions(txs, today)
        lm == sameWeekLastMonthTransactions(txs, today)
        allCategories == UnionKeys(CategoryKeys(lw), CategoryKeys(lm))
        mapped == [i \in 1..Len(allCategories) |->
                     TrendOf(allCategories[i],
                             CategoryTotal(lw, allCategories[i]),
                             CategoryTotal(lm, allCategories[i]))]
        shown == SelectSeq(mapped, LAMBDA t : t.amount > 0)
    IN  SortByAmountDesc(Slice(shown, TopN))

spendingTrends(txs, today) ==
    LET lw == lastWeekTransactions(txs, today)
        lm == sameWeekLastMonthTransactions(txs, today)
        allCategories == UnionKeys(CategoryKeys(lw), CategoryKeys(lm))
        mapped == [i \in 1..Len(allCategories) |->
                     TrendOf(allCategories[i],
                             CategoryTotal(lw, allCategories[i]),
                             CategoryTotal(lm, allCategories[i]))]
        shown == SelectSeq(mapped, LAMBDA t : t.amount > 0)
    IN  Slice(SortByAmountDesc(shown), TopN)

\* budgetLimits.find(b => b.category === category): index of the first match, 0 if none
FindLimit(limits, category) ==
    IF \E i \in 1..Len(limits) : limits[i].category = category
    THEN CHOOSE i \in 1..Len(limits) :
            /\ limits[i].category = category
            /\ \A j \in 1..(i - 1) : limits[j].category # category
    ELSE 0

\* the spending total budgetAlerts compares with a limit
AlertSpending(txs, category) == CategoryTotal(Expenses(txs), category)

RECURSIVE AlertsFor(_, _, _)
AlertsFor(keys, txs, limits) ==
    IF keys = <<>> THEN <<>>
    ELSE LET category == keys[1]
             amount == AlertSpending(txs, category)
             k == FindLimit(limits, category)
             rest == AlertsFor(Tail(keys), txs, limits)
         IN  IF k # 0 /\ amount > limits[k].monthly_limit
             THEN <<[category |-> category,
                     spent |-> amount,
                     budget |-> limits[k].monthly_limit,
                     overBudget |-> amount - limits[k].monthly_limit]>> \o rest
             ELSE rest

budgetAlerts(txs, limits) == AlertsFor(CategoryKeys(Expenses(txs)), txs, limits)

weekendSpending(txs) ==
    SumAmounts(SelectSeq(txs, LAMBDA t :
        t.type = "expense" /\ (getDay(t.created_at) = 0 \/ getDay(t.created_at) = 6)))

weekdaySpending(txs) ==
    SumAmounts(SelectSeq(txs, LAMBDA t :
        t.type = "expense" /\ getDay(t.created_at) >= 1 /\ getDay(t.created_at) <= 5))

WeekendThreshold == 35

\* patterns with the weekend threshold inclusive
patternsInclusive(txs, trends) ==
    LET we == weekendSpending(txs)
        wd == weekdaySpending(txs)
        weekend == IF we > 0 /\ wd > 0 /\ we * 100 >= WeekendThreshold * (we + wd)
                   THEN <<[type |-> "weekend_spending",
                           num |-> we * 100, den |-> we + wd]>>
                   ELSE <<>>
        totalLastWeek == SumAmounts(trends)
        totalSameWeekLastMonth ==
            SumAmounts([i \in 1..Len(trends) |-> [amount |-> trends[i].lastMonthAmount]])
        historical == IF Len(trends) > 0 /\ totalSameWeekLastMonth > 0
                      THEN <<[type |-> "historical_comparison",
                              num |-> (totalLastWeek - totalSameWeekLastMonth) * 100,
                              den |-> totalSameWeekLastMonth]>>
                      ELSE <<>>
    IN  weekend \o historical

patterns(txs, trends) ==
    LET we == weekendSpending(txs)
        wd == weekdaySpending(txs)
        weekend == IF we > 0 /\ wd > 0 /\ we * 100 > WeekendThreshold * (we + wd)
                   THEN <<[type |-> "weekend_spending",
                           num |-> we * 100, den |-> we + wd]>>
                   ELSE <<>>
        totalLastWeek == SumAmounts(trends)
        totalSameWeekLastMonth ==
            SumAmounts([i \in 1..Len(trends) |-> [amount |-> trends[i].lastMonthAmount]])
        historical == IF Len(trends) > 0 /\ totalSameWeekLastMonth > 0
                      THEN <<[type |-> "historical_comparison",
                              num |-> (totalLastWeek - totalSameWeekLastMonth) * 100,
                              den |-> totalSameWeekLastMonth]>>
                      ELSE <<>>
    IN  weekend \o historical

EmptyInsights ==
    [spendingTrends |-> <<>>, recommendations |-> <<>>,
     budgetAlerts |-> <<>>, patterns |-> <<>>]

generateBasicInsights(txs, limits, today) ==
    IF Len(txs) = 0 THEN EmptyInsights
    ELSE LET trends == spendingTrends(txs, today)
         IN  [spendingTrends |-> trends,
              recommendations |-> <<>>,
              budgetAlerts |-> budgetAlerts(txs, limits),
              patterns |-> patterns(txs, trends)]

\* prepareTransactionSummary: the transactions of the current calendar month
currentMonthTransactions(txs, today) ==
    SelectSeq(txs, LAMBDA t : YearMonth(t.created_at) = YearMonth(today))

----------------------------------------------------------------------------
(* The analyze-audio edge function.  A text is a string; an amount taken    *)
(* from a text is kept in hundredths (parseFloat of "12.50" is 1250); a     *)
(* confidence is kept in tenths (0.9 is 9).                                 *)

At(text, i) == SubSeq(text, i, i)

\* String.prototype.includes
includes(text, keyword) ==
    \E i \in 1..(Len(text) - Len(keyword) + 1) :
        SubSeq(text, i, i + Len(keyword) - 1) = keyword

UpperCaseLetters == "ABCDEFGHIJKLMNOPQRSTUVWXYZ"
LowerCaseLetters == "abcdefghijklmnopqrstuvwxyz"

toLowerCaseChar(c) ==
    IF \E i \in 1..26 : At(UpperCaseLetters, i) = c
    THEN At(LowerCaseLetters, CHOOSE i \in 1..26 : At(UpperCaseLetters, i) = c)
    ELSE c

\* String.prototype.toLowerCase
RECURSIVE toLowerCase(_)
toLowerCase(text) ==
    IF Len(text) = 0 THEN ""
    ELSE toLowerCaseChar(At(text, 1)) \o toLowerCase(SubSeq(text, 2, Len(text)))

\* String.prototype.trim
RECURSIVE trim(_)
trim(text) ==
    IF Len(text) = 0 THEN ""
    ELSE IF At(text, 1) = " " THEN trim(SubSeq(text, 2, Len(text)))
    ELSE IF At(text, Len(text)) = " " THEN trim(SubSeq(text, 1, Len(text) - 1))
    ELSE text

DecimalDigits == "0123456789"

\* \d
isDigit(c) == \E i \in 1..10 : At(DecimalDigits, i) = c

digitValue(c) == (CHOOSE i \in 1..10 : At(DecimalDigits, i) = c) - 1

\* the value of the digits text[a..b]
RECURSIVE digitsValue(_, _, _)
digitsValue(text, a, b) ==
    IF b < a THEN 0
    ELSE 10 * digitsValue(text, a, b - 1) + digitValue(At(text, b))

\* the index of the first digit of text, 0 if there is none
firstDigit(text) ==
    IF \E i \in 1..Len(text) : isDigit(At(text, i))
    THEN CHOOSE i \in 1..Len(text) :
            /\ isDigit(At(text, i))
            /\ \A j \in 1..(i - 1) : ~isDigit(At(text, j))
    ELSE 0

\* \d+ is greedy: the last index of the run of digits that starts at i
RECURSIVE digitRunEnd(_, _)
digitRunEnd(text, i) ==
    IF i < Len(text) /\ isDigit(At(text, i + 1))
    THEN digitRunEnd(text, i + 1)
    ELSE i

\* text.match(/\$?(\d+(?:\.\d{2})?)/): the leftmost match.  from..to is the
\* whole match, group the capture, hundredths the value parseFloat gives it
amountMatch(text) ==
    LET d == firstDigit(text)
        e == digitRunEnd(text, d)
        cents == /\ e + 3 <= Len(text)
                 /\ At(text, e + 1) = "."
                 /\ isDigit(At(text, e + 2))
                 /\ isDigit(At(text, e + 3))
        to == IF cents THEN e + 3 ELSE e
    IN  IF d = 0
        THEN [found |-> FALSE, from |-> 0, to |-> 0, group |-> "", hundredths |-> 0]
        ELSE [found |-> TRUE,
              from |-> IF d > 1 /\ At(text, d - 1) = "$" THEN d - 1 ELSE d,
              to |-> to,
              group |-> SubSeq(text, d, to),
              hundredths |-> 100 * digitsValue(text, d, e) +
                             (IF cents THEN digitsValue(text, e + 2, e + 3) ELSE 0)]

incomeKeywords ==
    <<"salary", "income", "paid", "received", "earned", "bonus", "refund">>

expenseKeywords == <<"spent", "bought", "paid for", "cost", "expense", "bill">>

\* keywords.some(keyword => text.includes(keyword))
someIncluded(text, keywords) ==
    \E i \in 1..Len(keywords) : includes(text, keywords[i])

\* the keyword table, in the order Object.entries iterates it
categories ==
    <<[name |-> "Groceries",
       keywords |-> <<"grocery", "groceries", "supermarket", "food shopping", "market">>],
      [name |-> "Food",
       keywords |-> <<"restaurant", "lunch", "dinner", "breakfast", "cafe", "food">>],
      [name |-> "Transport",
       keywords |-> <<"gas", "fuel", "taxi", "uber", "bus", "train", "transport">>],
      [name |-> "Shopping",
       keywords |-> <<"shopping", "store", "mall", "online", "amazon", "clothes">>],
      [name |-> "Bills",
       keywords |-> <<"bill", "electricity", "water", "internet", "phone", "rent">>],
      [name |-> "Drinks",
       keywords |-> <<"coffee", "beer", "wine", "drinks", "bar", "alcohol">>],
      [name |-> "Travel",
       keywords |-> <<"flight", "hotel", "vacation", "trip", "travel">>],
      [name |-> "Education",
       keywords |-> <<"school", "course", "book", "education", "tuition">>],
      [name |-> "Family",
       keywords |-> <<"family", "kids", "children", "babysitter">>],
      [name |-> "Salary",
       keywords |-> <<"salary", "paycheck", "wage", "income">>],
      [name |-> "Loans",
       keywords |-> <<"loan", "mortgage", "credit", "debt">>]>>

\* keywords.filter(keyword => text.includes(keyword)).length
matchCount(text, keywords) ==
    Cardinality({i \in 1..Len(keywords) : includes(text, keywords[i])})

Min(a, b) == IF a < b THEN a ELSE b

\* the category loop without its break: the last matching category wins
RECURSIVE detectCategoryLastWins(_, _)
detectCategoryLastWins(text, k) ==
    IF k > Len(categories)
    THEN [category |-> "Shopping", confidence |-> 5]
    ELSE LET matches == matchCount(text, categories[k].keywords)
             later == detectCategoryLastWins(text, k + 1)
             laterMatch == \E j \in (k + 1)..Len(categories) :
                              matchCount(text, categories[j].keywords) > 0
         IN  IF matches > 0 /\ ~laterMatch
             THEN [category |-> categories[k].name, confidence |-> Min(9, 6 + matches)]
             ELSE later

\* the category loop from table entry k on: detectedCategory and confidence
RECURSIVE detectCategory(_, _)
detectCategory(text, k) ==
    IF k > Len(categories)
    THEN [category |-> "Shopping", confidence |-> 5]
    ELSE LET matches == matchCount(text, categories[k].keywords)
         IN  IF matches > 0
             THEN [category |-> categories[k].name, confidence |-> Min(9, 6 + matches)]
             ELSE detectCategory(text, k + 1)

\* analyzeTranscriptFallback after its first statement,
\* text = transcript.toLowerCase()
fallbackAnalysis(transcriptText, text) ==
    LET amountMatched == amountMatch(text)
        amount == IF amountMatched.found THEN amountMatched.hundredths ELSE 0
        isIncome == someIncluded(text, incomeKeywords)
        detected == detectCategory(text, 1)
        m == amountMatch(transcriptText)
        replaced == IF amount > 0
                    THEN trim(SubSeq(transcriptText, 1, m.from - 1) \o
                              SubSeq(transcriptText, m.to + 1, Len(transcriptText)))
                    ELSE transcriptText
        description == IF Len(replaced) = 0
                       THEN detected.category \o " transaction"
                       ELSE replaced
    IN  [type |-> IF isIncome THEN "income" ELSE "expense",
         category |-> detected.category,
         amount |-> amount,
         description |-> description,
         confidence |-> detected.confidence]

\* (the one-element set binds text to a value, so that it is computed once)
analyzeTranscriptFallback(transcriptText) ==
    CHOOSE result \in {fallbackAnalysis(transcriptText, text) :
                          text \in {toLowerCase(transcriptText)}} : TRUE

----------------------------------------------------------------------------
(* Input domains *)

MaxWeeks == 1        \* the clock is observed around the first MaxWeeks multiples of 7 days

ClockValues ==
    UNION {{w * cacheValidDuration, w * cacheValidDuration + 1} : w \in 0..MaxWeeks}

Users == {"userA", "userB"}

Tabs == {"record", "insights"}

Tx(id, type, category, amount, day) ==
    [id |-> id, type |-> type, category |-> category, amount |-> amount,
     created_at |-> day]

\* rows the transactions table may hold for a user
TxUniverse ==
    <<Tx(1, "expense", "Groceries", 20, -35),
      Tx(2, "expense", "Groceries", 21, -7),
      Tx(3, "expense", "Groceries", 19, -1),
      Tx(4, "expense", "Groceries", 22, -7),
      Tx(5, "expense", "Dining", 20, -7),
      Tx(6, "expense", "Dining", 22, -35),
      Tx(7, "expense", "Groceries", 20, 0),
      Tx(8, "expense", "Dining", 21, 0),
      Tx(9, "income", "Groceries", 20, -7),
      Tx(10, "expense", "Groceries", 1, -1),
      Tx(11, "expense", "Groceries", 20, -36)>>

TxIds == 1..Len(TxUniverse)

\* every list of at most MaxTx distinct rows
TxLists ==
    UNION {{[i \in 1..n |-> TxUniverse[f[i]]] :
               f \in {g \in [1..n -> TxIds] :
                        \A i, j \in 1..n : i # j => g[i] # g[j]}} : n \in 0..MaxTx}

\* what the store returns in the interactive specification
SeedLists == {<<>>, <<TxUniverse[2]>>}

Limit(category, monthly_limit) ==
    [category |-> category, monthly_limit |-> monthly_limit]

\* budget_limits rows of a user: categories unique, monthly_limit > 0
LimitLists ==
    {<<>>, <<Limit("Groceries", 20)>>,
     <<Limit("Dining", 20), Limit("Groceries", 40)>>}

SeedLimits == {<<>>, <<Limit("Groceries", 20)>>}

\* bodies of a 200 response of the recommendation endpoint
RecLists == {<<>>, <<"rec1">>}

FailureKinds == {"network", "status", "parse"}

----------------------------------------------------------------------------
(* localStorage and the AIInsights instance *)

\* a nullable value is a sequence of at most one element
Null == <<>>
Some(x) == <<x>>

\* localStorage.getItem returns null
NoEntry == <<>>

JSONstringify(c) == <<"json", c.data, c.timestamp>>
JSONparse(s) == [data |-> s[2], timestamp |-> s[3]]

Mounted == activeTab = "insights"

isCacheValid ==
    IF cachedAIRecommendations = Null THEN FALSE
    ELSE (now - cachedAIRecommendations[1].timestamp) < cacheValidDuration

GenerateErrorMessage ==
    "Failed to generate AI recommendations. Please try refreshing manually."

\* history record: the handler that ran, the age of the stored entry it found
\* (-1: none), the recommendations a response carried, whether the instance that
\* sent the request was still mounted, whether localStorage.setItem returned
Event(op, age, data, live, wrote) ==
    [op |-> op, age |-> age, data |-> data, live |-> live, wrote |-> wrote]

Plain(op) == Event(op, -1, <<>>, FALSE, FALSE)

\* the Dashboard is shown (its key check found a key), BudgetLimitsManager is
\* not rendered, and the store holds one budget limit of the user and one of
\* another user
SideInitial ==
    /\ editorLimits = <<>>
    /\ managerLoading = TRUE
    /\ saving = FALSE
    /\ limitsError = ""
    /\ success = ""
    /\ saveJob = Null
    /\ storedLimits = {[user_id |-> "userB", category |-> "Food", monthly_limit |-> 30],
                       [user_id |-> "userA", category |-> "Rent", monthly_limit |-> 40]}
    /\ profileKey = "sk-user"
    /\ subscriptionStatus = "none"
    /\ hasOpenAIKey = TRUE
    /\ checkingApiKey = FALSE
    /\ lastServed = Null

\* the useState initial values of TransactionRecorder
RecorderInitial ==
    /\ audioURL = Null
    /\ transcript = ""
    /\ analysisResult = Null
    /\ loading = FALSE
    /\ showManualForm = FALSE
    /\ error = ""

\* TransactionRecorder is rendered only on the record tab: leaving the tab
\* destroys its state, and the setters its pending requests hold become no-ops
RecorderUnmount ==
    /\ audioURL' = Null
    /\ transcript' = ""
    /\ analysisResult' = Null
    /\ loading' = FALSE
    /\ showManualForm' = FALSE
    /\ error' = ""
    /\ analyses' = {[r EXCEPT !.live = FALSE] : r \in analyses}
    /\ saves' = {[r EXCEPT !.live = FALSE] : r \in saves}

\* the useState initial values of AIInsights
InstanceReset ==
    /\ basicInsights' = EmptyInsights
    /\ aiRecommendations' = <<>>
    /\ cachedAIRecommendations' = Null
    /\ isRefreshingAI' = FALSE
    /\ lastAIRefresh' = Null
    /\ budgetLimits' = <<>>
    /\ aiRecommendationsError' = ""
    /\ limitsLoading' = FALSE

Init ==
    /\ user = "userA"
    /\ activeTab = "record"
    /\ transactions = <<>>
    /\ budgetLimitsVersion = 0
    /\ now = 0
    /\ storage = NoEntry
    /\ storedFor = "none"
    /\ inst = 0
    /\ basicInsights = EmptyInsights
    /\ aiRecommendations = <<>>
    /\ cachedAIRecommendations = Null
    /\ isRefreshingAI = FALSE
    /\ lastAIRefresh = Null
    /\ budgetLimits = <<>>
    /\ aiRecommendationsError = ""
    /\ limitsLoading = FALSE
    /\ inflight = {}
    /\ reqCount = 0
    /\ lastEvent = Plain("init")
    /\ RecorderInitial
    /\ analyses = {}
    /\ saves = {}
    /\ alertText = ""
    /\ lastWrite = Null
    /\ proxyReply = Null
    /\ SideInitial

\* the load test with the boundary included
LoadCheckValidInclusive(parsedCache, t) ==
    (t - parsedCache.timestamp) <= cacheValidDuration

\* the load test with the entry tied to the signed-in user
LoadCheckValidPerUser(parsedCache, t) ==
    (t - parsedCache.timestamp) < cacheValidDuration /\ storedFor = user

\* the test of the cache-load effect
LoadCheckValid(parsedCache, t) == (t - parsedCache.timestamp) < cacheValidDuration

\* the valid branch without setLastAIRefresh
AcceptCacheNoRefreshTime(parsedCache) ==
    /\ cachedAIRecommendations' = Some(parsedCache)
    /\ aiRecommendations' = parsedCache.data
    /\ UNCHANGED <<lastAIRefresh, storage, storedFor>>

\* cache-load effect, valid branch
AcceptCache(parsedCache) ==
    /\ cachedAIRecommendations' = Some(parsedCache)
    /\ aiRecommendations' = parsedCache.data
    /\ lastAIRefresh' = Some(parsedCache.timestamp)
    /\ UNCHANGED <<storage, storedFor>>

\* the expired branch without localStorage.removeItem
ExpireCacheKeepsEntry ==
    /\ cachedAIRecommendations' = Null
    /\ aiRecommendations' = <<>>
    /\ lastAIRefresh' = Null
    /\ UNCHANGED <<storage, storedFor>>

\* cache-load effect, expired branch
ExpireCache ==
    /\ cachedAIRecommendations' = Null
    /\ aiRecommendations' = <<>>
    /\ lastAIRefresh' = Null
    /\ storage' = NoEntry
    /\ storedFor' = "none"

\* the cache-load effect, run once when AIInsights mounts
LoadCachedRecommendations ==
    IF storage # NoEntry
    THEN LET parsedCache == JSONparse(storage)
         IN  /\ IF LoadCheckValid(parsedCache, now)
                THEN AcceptCache(parsedCache)
                ELSE ExpireCache
             /\ lastEvent' = Event("load", now - parsedCache.timestamp, <<>>, TRUE, FALSE)
    ELSE /\ cachedAIRecommendations' = Null
         /\ aiRecommendations' = <<>>
         /\ lastAIRefresh' = Null
         /\ UNCHANGED <<storage, storedFor>>
         /\ lastEvent' = Event("load", -1, <<>>, TRUE, FALSE)

\* AIInsights mounts: loadBudgetLimits starts, the basic-insights effect and the
\* cache-load effect run
MountInsights ==
    /\ activeTab # "insights"
    /\ inst < MaxMounts
    /\ activeTab' = "insights"
    /\ inst' = inst + 1
    /\ budgetLimits' = <<>>
    /\ limitsLoading' = TRUE
    /\ basicInsights' = generateBasicInsights(transactions, <<>>, Today(now))
    /\ isRefreshingAI' = FALSE
    /\ aiRecommendationsError' = ""
    /\ LoadCachedRecommendations
    /\ RecorderUnmount
    /\ UNCHANGED <<user, transactions, budgetLimitsVersion, now, inflight, reqCount,
                   alertText, lastWrite, proxyReply>>
    /\ UNCHANGED sideVars

\* setActiveTab to another tab while "insights" is shown: AIInsights unmounts
\* and its state is gone
UnmountInsights(tab) ==
    /\ Mounted
    /\ tab # "insights"
    /\ activeTab' = tab
    /\ InstanceReset
    /\ lastEvent' = Plain("unmount")
    /\ UNCHANGED <<user, transactions, budgetLimitsVersion, now, storage, storedFor,
                   inst, inflight, reqCount>>
    /\ UNCHANGED appVars

\* a refresh that keeps an entry that is still valid
ClearCacheIfExpired ==
    IF storage # NoEntry /\ (now - JSONparse(storage).timestamp) < cacheValidDuration
    THEN UNCHANGED <<storage, storedFor, cachedAIRecommendations>>
    ELSE /\ storage' = NoEntry
         /\ storedFor' = "none"
         /\ cachedAIRecommendations' = Null

\* handleManualRefresh: clear the cache to force regeneration
ClearCache ==
    /\ storage' = NoEntry
    /\ storedFor' = "none"
    /\ cachedAIRecommendations' = Null

\* handleManualRefresh, and generateAIRecommendations up to the fetch it awaits
ManualRefresh ==
    /\ Mounted
    /\ Len(transactions) > 0          \* the button is rendered only then
    /\ ~isRefreshingAI                \* disabled={isRefreshingAI}
    /\ reqCount < MaxRequests
    /\ ClearCache
    /\ isRefreshingAI' = TRUE
    /\ aiRecommendationsError' = ""
    /\ inflight' = inflight \cup {[inst |-> inst, userId |-> user]}
    /\ reqCount' = reqCount + 1
    /\ lastEvent' = Event("manualRefresh",
                          IF storage = NoEntry THEN -1
                          ELSE now - JSONparse(storage).timestamp, <<>>, TRUE, FALSE)
    /\ UNCHANGED <<user, activeTab, transactions, budgetLimitsVersion, now, inst,
                   basicInsights, aiRecommendations, lastAIRefresh, budgetLimits,
                   limitsLoading>>
    /\ UNCHANGED appVars

\* the instance that sent request r is still the mounted one
Live(r) == Mounted /\ r.inst = inst

\* "Update states" without setAiRecommendations
ApplyRecommendationsKeepsOld(live, newCachedRecommendations) ==
    IF live
    THEN /\ cachedAIRecommendations' = Some(newCachedRecommendations)
         /\ lastAIRefresh' = Some(newCachedRecommendations.timestamp)
         /\ isRefreshingAI' = FALSE
         /\ UNCHANGED aiRecommendations
    ELSE UNCHANGED <<cachedAIRecommendations, aiRecommendations, lastAIRefresh,
                     isRefreshingAI>>

\* generateAIRecommendations, "Update states"; React drops the updates of an
\* instance that is no longer mounted
ApplyRecommendations(live, newCachedRecommendations) ==
    IF live
    THEN /\ cachedAIRecommendations' = Some(newCachedRecommendations)
         /\ aiRecommendations' = newCachedRecommendations.data
         /\ lastAIRefresh' = Some(newCachedRecommendations.timestamp)
         /\ isRefreshingAI' = FALSE
    ELSE UNCHANGED <<cachedAIRecommendations, aiRecommendations, lastAIRefresh,
                     isRefreshingAI>>

\* generateAIRecommendations, "Store in localStorage for persistence"
StoreRecommendations(userId, newCachedRecommendations, writeOk) ==
    IF writeOk
    THEN /\ storage' = JSONstringify(newCachedRecommendations)
         /\ storedFor' = userId
    ELSE UNCHANGED <<storage, storedFor>>

\* generateAIRecommendations after fetchAIRecommendations returned recommendations;
\* writeOk: localStorage.setItem did not throw
GenerateSuccess(r, recommendations, writeOk) ==
    /\ r \in inflight
    /\ inflight' = inflight \ {r}
    /\ ApplyRecommendations(Live(r), [data |-> recommendations, timestamp |-> now])
    /\ StoreRecommendations(r.userId, [data |-> recommendations, timestamp |-> now],
                            writeOk)
    /\ lastEvent' = Event("generateSuccess", -1, recommendations, Live(r), writeOk)
    /\ UNCHANGED <<user, activeTab, transactions, budgetLimitsVersion, now, inst,
                   basicInsights, budgetLimits, aiRecommendationsError, limitsLoading,
                   reqCount>>
    /\ UNCHANGED appVars

\* a catch block that only logs
SurfaceErrorSilent(live) ==
    IF live
    THEN /\ isRefreshingAI' = FALSE
         /\ UNCHANGED aiRecommendationsError
    ELSE UNCHANGED <<aiRecommendationsError, isRefreshingAI>>

\* generateAIRecommendations, catch and finally
SurfaceError(live) ==
    IF live
    THEN /\ aiRecommendationsError' = GenerateErrorMessage
         /\ isRefreshingAI' = FALSE
    ELSE UNCHANGED <<aiRecommendationsError, isRefreshingAI>>

\* generateAIRecommendations when fetchAIRecommendations threw
GenerateFail(r, kind) ==
    /\ r \in inflight
    /\ kind \in FailureKinds
    /\ inflight' = inflight \ {r}
    /\ SurfaceError(Live(r))
    /\ lastEvent' = Event("generateFail", -1, <<>>, Live(r), FALSE)
    /\ UNCHANGED <<user, activeTab, transactions, budgetLimitsVersion, now, storage,
                   storedFor, inst, basicInsights, aiRecommendations,
                   cachedAIRecommendations, lastAIRefresh, budgetLimits, limitsLoading,
                   reqCount>>
    /\ UNCHANGED appVars

\* a data change that also drops the recommendation cache
OnDataChangeInvalidates(txs, limits) ==
    /\ basicInsights' = IF Mounted
                        THEN generateBasicInsights(txs, limits, Today(now))
                        ELSE basicInsights
    /\ storage' = NoEntry
    /\ storedFor' = "none"
    /\ aiRecommendations' = <<>>
    /\ cachedAIRecommendations' = Null
    /\ lastAIRefresh' = Null

\* what AIInsights does when transactions or budgetLimits change: the
\* basic-insights effect runs; no effect touches the recommendation cache
OnDataChange(txs, limits) ==
    /\ basicInsights' = IF Mounted
                        THEN generateBasicInsights(txs, limits, Today(now))
                        ELSE basicInsights
    /\ UNCHANGED <<storage, storedFor, aiRecommendations, cachedAIRecommendations,
                   lastAIRefresh>>

\* Dashboard.fetchTransactions, the store answering with data
FetchTransactions(data) ==
    /\ data # transactions
    /\ transactions' = data
    /\ OnDataChange(data, budgetLimits)
    /\ lastEvent' = Plain("fetch")
    /\ UNCHANGED <<user, activeTab, budgetLimitsVersion, now, inst, isRefreshingAI,
                   budgetLimits, aiRecommendationsError, limitsLoading, inflight,
                   reqCount>>
    /\ UNCHANGED appVars

Max(S) == CHOOSE x \in S : \A y \in S : y <= x

\* the id the store gives a new row (unique among the rows the model names)
NewId(txs) == 1 + Max(TxIds \cup {txs[i].id : i \in 1..Len(txs)})

\* Dashboard.addTransaction, after the store accepted the insert
addTransaction(type, category, amount) ==
    /\ Len(transactions) < MaxRows
    /\ LET transaction == Tx(NewId(transactions), type, category, amount, Today(now))
       IN  /\ transactions' = <<transaction>> \o transactions
           /\ OnDataChange(<<transaction>> \o transactions, budgetLimits)
    /\ lastEvent' = Plain("add")
    /\ UNCHANGED <<user, activeTab, budgetLimitsVersion, now, inst, isRefreshingAI,
                   budgetLimits, aiRecommendationsError, limitsLoading, inflight,
                   reqCount>>
    /\ UNCHANGED appVars

\* Dashboard.updateTransaction, after the store accepted the edit
updateTransaction(id, type, category, amount) ==
    /\ \E i \in 1..Len(transactions) : transactions[i].id = id
    /\ LET updated == [i \in 1..Len(transactions) |->
                         IF transactions[i].id = id
                         THEN [transactions[i] EXCEPT !.type = type,
                                 !.category = category, !.amount = amount]
                         ELSE transactions[i]]
       IN  /\ updated # transactions
           /\ transactions' = updated
           /\ OnDataChange(updated, budgetLimits)
    /\ lastEvent' = Plain("update")
    /\ UNCHANGED <<user, activeTab, budgetLimitsVersion, now, inst, isRefreshingAI,
                   budgetLimits, aiRecommendationsError, limitsLoading, inflight,
                   reqCount>>
    /\ UNCHANGED appVars

\* Dashboard.deleteTransaction, after the store accepted the delete
deleteTransaction(id) ==
    /\ \E i \in 1..Len(transactions) : transactions[i].id = id
    /\ transactions' = SelectSeq(transactions, LAMBDA t : t.id # id)
    /\ OnDataChange(SelectSeq(transactions, LAMBDA t : t.id # id), budgetLimits)
    /\ lastEvent' = Plain("delete")
    /\ UNCHANGED <<user, activeTab, budgetLimitsVersion, now, inst, isRefreshingAI,
                   budgetLimits, aiRecommendationsError, limitsLoading, inflight,
                   reqCount>>
    /\ UNCHANGED appVars

\* saveBudgetLimits succeeded: handleBudgetLimitsUpdated bumps the version, and a
\* mounted AIInsights starts loadBudgetLimits
handleBudgetLimitsUpdated ==
    /\ budgetLimitsVersion < MaxSaves
    /\ budgetLimitsVersion' = budgetLimitsVersion + 1
    /\ limitsLoading' = Mounted
    /\ lastEvent' = Plain("saveLimits")
    /\ UNCHANGED <<user, activeTab, transactions, now, storage, storedFor, inst,
                   basicInsights, aiRecommendations, cachedAIRecommendations,
                   isRefreshingAI, lastAIRefresh, budgetLimits, aiRecommendationsError,
                   inflight, reqCount>>
    /\ UNCHANGED appVars

\* AIInsights.loadBudgetLimits, the store answering with data ([] on error)
loadBudgetLimits(data) ==
    /\ Mounted
    /\ limitsLoading
    /\ limitsLoading' = FALSE
    /\ budgetLimits' = data
    /\ OnDataChange(transactions, data)
    /\ lastEvent' = Plain("loadLimits")
    /\ UNCHANGED <<user, activeTab, transactions, budgetLimitsVersion, now, inst,
                   isRefreshingAI, aiRecommendationsError, inflight, reqCount>>
    /\ UNCHANGED appVars

\* the clock advances
Tick(t) ==
    /\ t > now
    /\ now' = t
    /\ lastEvent' = Plain("tick")
    /\ UNCHANGED <<user, activeTab, transactions, budgetLimitsVersion, storage,
                   storedFor, inst, basicInsights, aiRecommendations,
                   cachedAIRecommendations, isRefreshingAI, lastAIRefresh, budgetLimits,
                   aiRecommendationsError, limitsLoading, inflight, reqCount>>
    /\ UNCHANGED appVars

\* signOut followed by another user's signIn: the Dashboard is rebuilt, localStorage stays
SwitchUser(u) ==
    /\ u # user
    /\ user' = u
    /\ activeTab' = "record"
    /\ transactions' = <<>>
    /\ budgetLimitsVersion' = 0
    /\ InstanceReset
    /\ lastEvent' = Plain("switchUser")
    /\ RecorderUnmount
    /\ UNCHANGED <<now, storage, storedFor, inst, inflight, reqCount, alertText,
                   lastWrite, proxyReply>>
    /\ UNCHANGED sideVars

Next ==
    \/ MountInsights
    \/ \E tab \in Tabs : UnmountInsights(tab)
    \/ ManualRefresh
    \/ \E r \in inflight, recommendations \in RecLists, writeOk \in BOOLEAN :
          GenerateSuccess(r, recommendations, writeOk)
    \/ \E r \in inflight, kind \in FailureKinds : GenerateFail(r, kind)
    \/ \E data \in SeedLists : FetchTransactions(data)
    \/ addTransaction("expense", "Groceries", 21)
    \/ \E id \in TxIds : updateTransaction(id, "expense", "Dining", 22)
    \/ \E id \in TxIds : deleteTransaction(id)
    \/ handleBudgetLimitsUpdated
    \/ \E data \in SeedLimits : loadBudgetLimits(data)
    \/ \E t \in ClockValues : Tick(t)
    \/ \E u \in Users : SwitchUser(u)

Spec == Init /\ [][Next]_vars

----------------------------------------------------------------------------
(* The analyze-audio edge function: one request, one response *)

MaxWords == 3        \* fragments in a spoken text

Fragments ==
    <<"I spent", "$25", "on groceries", "Got paid", "$2000", "salary",
      "3.5 for COFFEE", "taxi and bus", "train or uber", "$12.50 at the market">>

\* fragments joined by single spaces
RECURSIVE JoinWords(_)
JoinWords(words) ==
    IF Len(words) = 0 THEN ""
    ELSE IF Len(words) = 1 THEN words[1]
    ELSE words[1] \o " " \o JoinWords(Tail(words))

\* what the speaker may have said
Texts ==
    UNION {{JoinWords([i \in 1..n |-> Fragments[f[i]]]) :
               f \in [1..n -> 1..Len(Fragments)]} : n \in 0..MaxWords}

\* the JSON object the chat model answered with; a field it left out, or an
\* amount that is not a number, is empty
Analysis(type, category, amount, description, confidence) ==
    [type |-> type, category |-> category, amount |-> amount,
     description |-> description, confidence |-> confidence]

NoAnalysis == Analysis("", "", Null, "", 0)

\* how the call of the chat-completions API ends
AIOutcomes ==
    {[kind |-> k, analysis |-> NoAnalysis] :
        k \in {"network", "status", "empty", "malformed"}}
    \cup
    {[kind |-> "reply", analysis |-> a] :
        a \in {Analysis("expense", "Food", Some(-1250), "Lunch", 9),
               Analysis("income", "Salary", Some(200000), "", 0),
               Analysis("expense", "Drinks", Some(0), "Coffee", 8),
               Analysis("", "Food", Some(1250), "Lunch", 9),
               Analysis("expense", "", Some(1250), "Lunch", 9),
               Analysis("expense", "Food", Null, "Lunch", 9)}}

\* analyzeTransactionWithAI without the fallback: a reply that fails the
\* validation is passed on with amount 0
analyzeTransactionWithAINoFallback(transcriptText, ai) ==
    IF ai.kind = "reply"
    THEN [type |-> ai.analysis.type,
          category |-> ai.analysis.category,
          amount |-> IF ai.analysis.amount = Null THEN 0
                     ELSE Abs(ai.analysis.amount[1]),
          description |-> IF ai.analysis.description = "" THEN "Transaction"
                          ELSE ai.analysis.description,
          confidence |-> IF ai.analysis.confidence = 0 THEN 5
                         ELSE ai.analysis.confidence]
    ELSE analyzeTranscriptFallback(transcriptText)

\* analyzeTransactionWithAI: every throw inside its try block (fetch failing,
\* a non-2xx status, empty content, JSON.parse, the validation) lands in the
\* catch block, which returns the keyword analysis
analyzeTransactionWithAI(transcriptText, ai) ==
    IF /\ ai.kind = "reply"
       /\ ai.analysis.type # ""
       /\ ai.analysis.category # ""
       /\ ai.analysis.amount # Null
    THEN [type |-> ai.analysis.type,
          category |-> ai.analysis.category,
          amount |-> Abs(ai.analysis.amount[1]),
          description |-> IF ai.analysis.description = "" THEN "Transaction"
                          ELSE ai.analysis.description,
          confidence |-> IF ai.analysis.confidence = 0 THEN 5
                         ELSE ai.analysis.confidence]
    ELSE analyzeTranscriptFallback(transcriptText)

\* getOpenAIApiKey: a key, no key, or a throw
KeyOutcomes == {"key", "none", "error"}

ErrorResponse(message) == [status |-> 500, body |-> [error |-> message]]

\* the POST handler of analyze-audio.  request.userId is "" when the body has
\* none; whisper is what transcribeAudio returns (Null when it throws)
analyzeAudio(request, key, whisper, ai) ==
    IF request.userId = "" THEN ErrorResponse("User ID is required")
    ELSE IF key = "error" THEN ErrorResponse("Failed to fetch user profile")
    ELSE IF key = "none"
    THEN ErrorResponse("OpenAI API key not available. Please upgrade to Pro or add your own API key.")
    ELSE IF request.transcript = "" /\ request.audioData /\ whisper = Null
    THEN ErrorResponse("Failed to transcribe audio: OpenAI API error: Unknown error")
    ELSE LET finalTranscript ==
                 IF request.transcript = "" /\ request.audioData
                 THEN whisper[1] ELSE request.transcript
         IN  IF finalTranscript = ""
             THEN ErrorResponse("No transcript available and audio transcription failed")
             ELSE [status |-> 200,
                   body |-> [transcript |-> finalTranscript,
                             analysis |-> analyzeTransactionWithAI(finalTranscript, ai)]]

\* the body TransactionRecorder posts
AudioRequest(userId) == [audioData |-> TRUE, transcript |-> "", userId |-> userId]

\* one request served by the function
ServeAnalyzeAudio(request, key, whisper, ai) ==
    /\ proxyReply' = Some([request |-> request, key |-> key, whisper |-> whisper,
                           ai |-> ai,
                           response |-> analyzeAudio(request, key, whisper, ai)])
    /\ UNCHANGED <<dashboardVars, recorderVars, alertText, lastWrite>>
    /\ UNCHANGED sideVars

\* texts on which every outcome of the chat-analysis call is tried
SampleTexts ==
    {"", "I spent $25 on groceries", "Got paid $2000 salary", "3.5 for COFFEE"}

\* the function keeps nothing between requests: one request per behaviour.
\* Every text with a failing chat-analysis call, the sample texts with every
\* outcome of that call, and the requests that end before the analysis
NextProxy ==
    \/ /\ proxyReply = Null
       /\ \E text \in Texts :
             ServeAnalyzeAudio(AudioRequest("userA"), "key", Some(text),
                               [kind |-> "network", analysis |-> NoAnalysis])
    \/ /\ proxyReply = Null
       /\ \E text \in SampleTexts, ai \in AIOutcomes :
             ServeAnalyzeAudio(AudioRequest("userA"), "key", Some(text), ai)
    \/ /\ proxyReply = Null
       /\ \E userId \in {"", "userA"}, key \in KeyOutcomes, ai \in AIOutcomes :
             ServeAnalyzeAudio(AudioRequest(userId), key, Null, ai)

SpecProxy == Init /\ [][NextProxy]_vars

----------------------------------------------------------------------------
(* generateBasicInsights over the rows a store may hold: the insights tab is  *)
(* open on a transaction list, the budget limits arrive and the list changes  *)

InitInsights ==
    /\ user = "userA"
    /\ activeTab = "insights"
    /\ transactions \in TxLists
    /\ budgetLimitsVersion = 0
    /\ now \in ClockValues
    /\ storage = NoEntry
    /\ storedFor = "none"
    /\ inst = 1
    /\ basicInsights = generateBasicInsights(transactions, <<>>, Today(now))
    /\ aiRecommendations = <<>>
    /\ cachedAIRecommendations = Null
    /\ isRefreshingAI = FALSE
    /\ lastAIRefresh = Null
    /\ budgetLimits = <<>>
    /\ aiRecommendationsError = ""
    /\ limitsLoading = TRUE
    /\ inflight = {}
    /\ reqCount = 0
    /\ lastEvent = Event("load", -1, <<>>, TRUE, FALSE)
    /\ RecorderInitial
    /\ analyses = {}
    /\ saves = {}
    /\ alertText = ""
    /\ lastWrite = Null
    /\ proxyReply = Null
    /\ SideInitial

NextInsights ==
    \/ \E data \in LimitLists : loadBudgetLimits(data)
    \/ handleBudgetLimitsUpdated
    \/ \E id \in TxIds : deleteTransaction(id)

SpecInsights == InitInsights /\ [][NextInsights]_vars

----------------------------------------------------------------------------
(* generateBasicInsights over lists with one row per category: enough         *)
(* categories for the top-5 cut, rows in the last-week window (Sunday and     *)
(* Wednesday), in the prior window, and income rows                           *)

MaxCats == 6         \* rows of a list with one row per category

TrendCategories ==
    <<"Groceries", "Dining", "Transport", "Bills", "Drinks", "Travel",
      "Education", "Family">>

\* what a row may be: [type, amount, created_at]
RowKinds ==
    {<<"expense", 7, -7>>, <<"expense", 13, -7>>, <<"expense", 13, -4>>,
     <<"expense", 7, -35>>, <<"income", 13, -4>>}

\* every list of n rows whose i-th row is of the i-th category
TrendLists(n) ==
    {[i \in 1..n |->
         Tx(100 + i, k[i][1],
            TrendCategories[((i - 1) % Len(TrendCategories)) + 1],
            k[i][2], k[i][3])] : k \in [1..n -> RowKinds]}

InitTrends ==
    /\ user = "userA"
    /\ activeTab = "insights"
    /\ \E n \in 0..MaxCats : transactions \in TrendLists(n)
    /\ budgetLimitsVersion = 0
    /\ now = 0
    /\ storage = NoEntry
    /\ storedFor = "none"
    /\ inst = 1
    /\ basicInsights = generateBasicInsights(transactions, <<>>, Today(now))
    /\ aiRecommendations = <<>>
    /\ cachedAIRecommendations = Null
    /\ isRefreshingAI = FALSE
    /\ lastAIRefresh = Null
    /\ budgetLimits = <<>>
    /\ aiRecommendationsError = ""
    /\ limitsLoading = TRUE
    /\ inflight = {}
    /\ reqCount = 0
    /\ lastEvent = Event("load", -1, <<>>, TRUE, FALSE)
    /\ RecorderInitial
    /\ analyses = {}
    /\ saves = {}
    /\ alertText = ""
    /\ lastWrite = Null
    /\ proxyReply = Null
    /\ SideInitial

NextTrends == \E data \in LimitLists : loadBudgetLimits(data)

SpecTrends == InitTrends /\ [][NextTrends]_vars

----------------------------------------------------------------------------
(* The record and transactions tabs: TransactionRecorder with its manual     *)
(* form, TransactionList, and the calls of the Dashboard and of AIInsights   *)
(* that can fail.  Amounts are in hundredths here.  A recording, from        *)
(* startRecording to the recorder's onstop handler, is one step.             *)

MaxInFlight == 1     \* analyze-audio requests awaiting their response
MaxAppRows == 1      \* rows in the list, counting the inserts awaiting the store

AppTabs == {"record", "transactions", "insights"}

\* what the user says into the microphone
SpokenTexts == {"I spent $25 on groceries", "taxi and bus"}

\* what the number inputs of the forms let through: type="number", step="0.01",
\* required, no min
FormAmounts == {2500, 0, -500}

\* how the analyze-audio function serves a request of the recorder: the key
\* lookup, whether Whisper returned the text, the chat-analysis call
ServerOutcomes ==
    {[key |-> "key", heard |-> TRUE,
      ai |-> [kind |-> "network", analysis |-> NoAnalysis]],
     [key |-> "key", heard |-> TRUE,
      ai |-> [kind |-> "reply",
              analysis |-> Analysis("expense", "Food", Some(-1250), "Lunch", 9)]],
     [key |-> "none", heard |-> TRUE,
      ai |-> [kind |-> "network", analysis |-> NoAnalysis]]}

\* the messages of the errors fetch and response.json() throw in the browser
FetchErrorMessage == "Failed to fetch"
JsonErrorMessage == "Unexpected end of JSON input"

AnalysisFailedText(message) ==
    "Analysis failed: " \o message \o ". You can still add the transaction manually."

SaveErrorMessage == "Failed to save transaction"
MicrophoneErrorMessage == "Could not access microphone. Please check permissions."

\* the columns an insert or an update sends
Row(type, category, amount) == [type |-> type, category |-> category, amount |-> amount]

\* the other tabs: setActiveTab between tabs that do not show AIInsights
OpenTab(tab) ==
    /\ activeTab # "insights"
    /\ tab # "insights"
    /\ tab # activeTab
    /\ activeTab' = tab
    /\ RecorderUnmount
    /\ lastEvent' = Plain("tab")
    /\ UNCHANGED <<user, transactions, budgetLimitsVersion, now, storage, storedFor,
                   inst, basicInsights, aiRecommendations, cachedAIRecommendations,
                   isRefreshingAI, lastAIRefresh, budgetLimits, aiRecommendationsError,
                   limitsLoading, inflight, reqCount, alertText, lastWrite, proxyReply>>
    /\ UNCHANGED sideVars

\* startRecording when getUserMedia rejects
startRecordingDenied ==
    /\ activeTab = "record"
    /\ ~showManualForm
    /\ ~loading
    /\ error' = MicrophoneErrorMessage
    /\ lastEvent' = Plain("microphoneDenied")
    /\ UNCHANGED <<user, activeTab, transactions, budgetLimitsVersion, now, storage,
                   storedFor, inst, basicInsights, aiRecommendations,
                   cachedAIRecommendations, isRefreshingAI, lastAIRefresh, budgetLimits,
                   aiRecommendationsError, limitsLoading, inflight, reqCount>>
    /\ UNCHANGED <<audioURL, transcript, analysisResult, loading, showManualForm,
                   analyses, saves, alertText, lastWrite, proxyReply>>
    /\ UNCHANGED sideVars

\* startRecording, stopRecording, onstop and analyzeAudioWithAI up to its fetch
RecordAudio(spoken) ==
    /\ activeTab = "record"
    /\ ~showManualForm
    /\ ~loading
    /\ Cardinality(analyses) < MaxInFlight
    /\ [spoken |-> spoken, live |-> TRUE] \notin analyses
    /\ audioURL' = Some("blob")
    /\ loading' = TRUE
    /\ error' = ""
    /\ analyses' = analyses \cup {[spoken |-> spoken, live |-> TRUE]}
    /\ lastEvent' = Plain("record")
    /\ UNCHANGED <<user, activeTab, transactions, budgetLimitsVersion, now, storage,
                   storedFor, inst, basicInsights, aiRecommendations,
                   cachedAIRecommendations, isRefreshingAI, lastAIRefresh, budgetLimits,
                   aiRecommendationsError, limitsLoading, inflight, reqCount>>
    /\ UNCHANGED <<transcript, analysisResult, showManualForm, saves, alertText,
                   lastWrite, proxyReply>>
    /\ UNCHANGED sideVars

\* analyzeAudioWithAI with a catch block that also drops the analysis shown
AnalysisFailedClearsResult(live, message) ==
    IF live
    THEN /\ error' = AnalysisFailedText(message)
         /\ showManualForm' = TRUE
         /\ loading' = FALSE
         /\ transcript' = ""
         /\ analysisResult' = Null
         /\ UNCHANGED audioURL
    ELSE UNCHANGED <<audioURL, transcript, analysisResult, loading, showManualForm,
                     error>>

\* analyzeAudioWithAI, catch without finally
AnalysisFailedKeepsLoading(live, message) ==
    IF live
    THEN /\ error' = AnalysisFailedText(message)
         /\ showManualForm' = TRUE
         /\ UNCHANGED <<audioURL, transcript, analysisResult, loading>>
    ELSE UNCHANGED <<audioURL, transcript, analysisResult, loading, showManualForm,
                     error>>

\* analyzeAudioWithAI, catch and finally
AnalysisFailed(live, message) ==
    IF live
    THEN /\ error' = AnalysisFailedText(message)
         /\ showManualForm' = TRUE
         /\ loading' = FALSE
         /\ UNCHANGED <<audioURL, transcript, analysisResult>>
    ELSE UNCHANGED <<audioURL, transcript, analysisResult, loading, showManualForm,
                     error>>

\* analyzeAudioWithAI after response.json() of an ok response, and finally
AnalysisSucceeded(live, body) ==
    IF live
    THEN /\ transcript' = body.transcript
         /\ analysisResult' = Some(body.analysis)
         /\ loading' = FALSE
         /\ UNCHANGED <<audioURL, showManualForm, error>>
    ELSE UNCHANGED <<audioURL, transcript, analysisResult, loading, showManualForm,
                     error>>

\* analyzeAudioWithAI when fetch rejects (the endpoint is unreachable) or the
\* body of the response is not JSON
AnalyzeNoAnswer(r, message) ==
    /\ r \in analyses
    /\ analyses' = analyses \ {r}
    /\ AnalysisFailed(r.live, message)
    /\ lastEvent' = Event("analysisFail", -1, <<r.spoken>>, r.live, FALSE)
    /\ UNCHANGED <<user, activeTab, transactions, budgetLimitsVersion, now, storage,
                   storedFor, inst, basicInsights, aiRecommendations,
                   cachedAIRecommendations, isRefreshingAI, lastAIRefresh, budgetLimits,
                   aiRecommendationsError, limitsLoading, inflight, reqCount>>
    /\ UNCHANGED <<saves, alertText, lastWrite, proxyReply>>
    /\ UNCHANGED sideVars

\* analyzeAudioWithAI when the function answers: 200 with the analysis, or 500
\* with an error text
AnalyzeAnswered(r, served) ==
    /\ r \in analyses
    /\ analyses' = analyses \ {r}
    /\ LET whisper == IF served.heard THEN Some(r.spoken) ELSE Null
           response == analyzeAudio(AudioRequest(user), served.key, whisper, served.ai)
       IN  IF response.status = 200
           THEN /\ AnalysisSucceeded(r.live, response.body)
                /\ lastEvent' = Event("analysisDone", -1, <<r.spoken>>, r.live, FALSE)
           ELSE /\ AnalysisFailed(r.live, response.body.error)
                /\ lastEvent' = Event("analysisFail", -1, <<r.spoken>>, r.live, FALSE)
    /\ UNCHANGED <<user, activeTab, transactions, budgetLimitsVersion, now, storage,
                   storedFor, inst, basicInsights, aiRecommendations,
                   cachedAIRecommendations, isRefreshingAI, lastAIRefresh, budgetLimits,
                   aiRecommendationsError, limitsLoading, inflight, reqCount>>
    /\ UNCHANGED <<saves, alertText, lastWrite, proxyReply>>
    /\ UNCHANGED sideVars

\* what resetForm sets
ResetFormState ==
    /\ audioURL' = Null
    /\ transcript' = ""
    /\ analysisResult' = Null
    /\ loading' = FALSE
    /\ error' = ""

\* resetForm from its buttons: the one beside the recording, and "Record Again"
resetForm ==
    /\ activeTab = "record"
    /\ ~showManualForm
    /\ audioURL # Null \/ (analysisResult # Null /\ ~loading)
    /\ ResetFormState
    /\ lastEvent' = Plain("reset")
    /\ UNCHANGED <<user, activeTab, transactions, budgetLimitsVersion, now, storage,
                   storedFor, inst, basicInsights, aiRecommendations,
                   cachedAIRecommendations, isRefreshingAI, lastAIRefresh, budgetLimits,
                   aiRecommendationsError, limitsLoading, inflight, reqCount>>
    /\ UNCHANGED <<showManualForm, analyses, saves, alertText, lastWrite, proxyReply>>
    /\ UNCHANGED sideVars

\* "Or add transaction manually"
OpenManualForm ==
    /\ activeTab = "record"
    /\ ~showManualForm
    /\ showManualForm' = TRUE
    /\ lastEvent' = Plain("openManual")
    /\ UNCHANGED <<user, activeTab, transactions, budgetLimitsVersion, now, storage,
                   storedFor, inst, basicInsights, aiRecommendations,
                   cachedAIRecommendations, isRefreshingAI, lastAIRefresh, budgetLimits,
                   aiRecommendationsError, limitsLoading, inflight, reqCount>>
    /\ UNCHANGED <<audioURL, transcript, analysisResult, loading, error, analyses,
                   saves, alertText, lastWrite, proxyReply>>
    /\ UNCHANGED sideVars

\* onCancel of the manual form
CancelManualForm ==
    /\ activeTab = "record"
    /\ showManualForm
    /\ showManualForm' = FALSE
    /\ error' = ""
    /\ lastEvent' = Plain("cancelManual")
    /\ UNCHANGED <<user, activeTab, transactions, budgetLimitsVersion, now, storage,
                   storedFor, inst, basicInsights, aiRecommendations,
                   cachedAIRecommendations, isRefreshingAI, lastAIRefresh, budgetLimits,
                   aiRecommendationsError, limitsLoading, inflight, reqCount>>
    /\ UNCHANGED <<audioURL, transcript, analysisResult, loading, analyses, saves,
                   alertText, lastWrite, proxyReply>>
    /\ UNCHANGED sideVars

\* an insert is sent: the try block of saveTransaction and of
\* saveManualTransaction up to the await
SendInsert(kind, row) ==
    /\ Len(transactions) + Cardinality(saves) < MaxAppRows
    /\ [kind |-> kind, row |-> row, live |-> TRUE] \notin saves
    /\ loading' = TRUE
    /\ saves' = saves \cup {[kind |-> kind, row |-> row, live |-> TRUE]}
    /\ lastWrite' = Some(row)
    /\ lastEvent' = Plain(kind)
    /\ UNCHANGED <<user, activeTab, transactions, budgetLimitsVersion, now, storage,
                   storedFor, inst, basicInsights, aiRecommendations,
                   cachedAIRecommendations, isRefreshingAI, lastAIRefresh, budgetLimits,
                   aiRecommendationsError, limitsLoading, inflight, reqCount>>
    /\ UNCHANGED <<audioURL, transcript, analysisResult, showManualForm, error,
                   analyses, alertText, proxyReply>>
    /\ UNCHANGED sideVars

\* "Save Transaction" on the analysis panel
saveTransaction ==
    /\ activeTab = "record"
    /\ ~showManualForm
    /\ analysisResult # Null
    /\ ~loading
    /\ SendInsert("voice", Row(analysisResult[1].type, analysisResult[1].category,
                               analysisResult[1].amount))

\* ManualTransactionForm.handleSubmit and saveManualTransaction
saveManualTransaction(formData) ==
    /\ activeTab = "record"
    /\ showManualForm
    /\ ~loading
    /\ SendInsert("manual", formData)

\* the store accepted an insert: onTransactionAdded, which is the Dashboard's
\* addTransaction, then setShowManualForm(false) for the manual form, resetForm
\* and finally
InsertAccepted(s) ==
    /\ s \in saves
    /\ saves' = saves \ {s}
    /\ LET data == Tx(NewId(transactions), s.row.type, s.row.category, s.row.amount,
                      Today(now))
       IN  /\ transactions' = <<data>> \o transactions
           /\ OnDataChange(<<data>> \o transactions, budgetLimits)
    /\ IF s.live
       THEN /\ showManualForm' = IF s.kind = "manual" THEN FALSE ELSE showManualForm
            /\ ResetFormState
       ELSE UNCHANGED <<audioURL, transcript, analysisResult, loading, showManualForm,
                        error>>
    /\ lastEvent' = Event("inserted", -1, <<>>, s.live, TRUE)
    /\ UNCHANGED <<user, activeTab, budgetLimitsVersion, now, inst, isRefreshingAI,
                   budgetLimits, aiRecommendationsError, limitsLoading, inflight,
                   reqCount>>
    /\ UNCHANGED <<analyses, alertText, lastWrite, proxyReply>>
    /\ UNCHANGED sideVars

\* the store answered an insert with an error (or the request failed): catch
\* and finally of saveTransaction and saveManualTransaction
InsertRejected(s) ==
    /\ s \in saves
    /\ saves' = saves \ {s}
    /\ IF s.live
       THEN /\ error' = SaveErrorMessage
            /\ loading' = FALSE
       ELSE UNCHANGED <<error, loading>>
    /\ lastEvent' = Event("insertFail", -1, <<>>, s.live, FALSE)
    /\ UNCHANGED <<user, activeTab, transactions, budgetLimitsVersion, now, storage,
                   storedFor, inst, basicInsights, aiRecommendations,
                   cachedAIRecommendations, isRefreshingAI, lastAIRefresh, budgetLimits,
                   aiRecommendationsError, limitsLoading, inflight, reqCount>>
    /\ UNCHANGED <<audioURL, transcript, analysisResult, showManualForm, analyses,
                   alertText, lastWrite, proxyReply>>
    /\ UNCHANGED sideVars

\* TransactionList.saveEdit with the answer of the store: onTransactionUpdated,
\* which is the Dashboard's updateTransaction, or the alert
saveEdit(id, amount, ok) ==
    /\ activeTab = "transactions"
    /\ \E i \in 1..Len(transactions) : transactions[i].id = id
    /\ LET old == CHOOSE t \in {transactions[i] : i \in 1..Len(transactions)} : t.id = id
           updated == [i \in 1..Len(transactions) |->
                         IF transactions[i].id = id
                         THEN [transactions[i] EXCEPT !.amount = amount]
                         ELSE transactions[i]]
       IN  /\ lastWrite' = Some(Row(old.type, old.category, amount))
           /\ IF ok
              THEN /\ transactions' = updated
                   /\ OnDataChange(updated, budgetLimits)
                   /\ UNCHANGED alertText
              ELSE /\ alertText' = "Failed to update transaction"
                   /\ UNCHANGED <<transactions, basicInsights, storage, storedFor,
                                  aiRecommendations, cachedAIRecommendations,
                                  lastAIRefresh>>
    /\ lastEvent' = Event(IF ok THEN "edited" ELSE "editFail", -1, <<>>, TRUE, ok)
    /\ UNCHANGED <<user, activeTab, budgetLimitsVersion, now, inst, isRefreshingAI,
                   budgetLimits, aiRecommendationsError, limitsLoading, inflight,
                   reqCount>>
    /\ UNCHANGED <<recorderVars, proxyReply>>
    /\ UNCHANGED sideVars

\* deleteTransaction removing the row before the store has answered, and
\* leaving it removed when the delete is rejected
deleteRowOptimistic(id, ok) ==
    /\ activeTab = "transactions"
    /\ \E i \in 1..Len(transactions) : transactions[i].id = id
    /\ transactions' = SelectSeq(transactions, LAMBDA t : t.id # id)
    /\ OnDataChange(SelectSeq(transactions, LAMBDA t : t.id # id), budgetLimits)
    /\ alertText' = (IF ok THEN alertText ELSE "Failed to delete transaction")
    /\ lastEvent' = Event(IF ok THEN "deleted" ELSE "deleteFail", -1, <<>>, TRUE, ok)
    /\ UNCHANGED <<user, activeTab, budgetLimitsVersion, now, inst, isRefreshingAI,
                   budgetLimits, aiRecommendationsError, limitsLoading, inflight,
                   reqCount>>
    /\ UNCHANGED <<recorderVars, lastWrite, proxyReply>>
    /\ UNCHANGED sideVars

\* TransactionList.deleteTransaction, confirmed, with the answer of the store
deleteRow(id, ok) ==
    /\ activeTab = "transactions"
    /\ \E i \in 1..Len(transactions) : transactions[i].id = id
    /\ IF ok
       THEN /\ transactions' = SelectSeq(transactions, LAMBDA t : t.id # id)
            /\ OnDataChange(SelectSeq(transactions, LAMBDA t : t.id # id), budgetLimits)
            /\ UNCHANGED alertText
       ELSE /\ alertText' = "Failed to delete transaction"
            /\ UNCHANGED <<transactions, basicInsights, storage, storedFor,
                           aiRecommendations, cachedAIRecommendations, lastAIRefresh>>
    /\ lastEvent' = Event(IF ok THEN "deleted" ELSE "deleteFail", -1, <<>>, TRUE, ok)
    /\ UNCHANGED <<user, activeTab, budgetLimitsVersion, now, inst, isRefreshingAI,
                   budgetLimits, aiRecommendationsError, limitsLoading, inflight,
                   reqCount>>
    /\ UNCHANGED <<recorderVars, lastWrite, proxyReply>>
    /\ UNCHANGED sideVars

\* Dashboard.fetchTransactions when the store answers with an error: the catch
\* block logs to the console
FetchTransactionsFailed ==
    /\ lastEvent' = Plain("fetchFail")
    /\ UNCHANGED <<user, activeTab, transactions, budgetLimitsVersion, now, storage,
                   storedFor, inst, basicInsights, aiRecommendations,
                   cachedAIRecommendations, isRefreshingAI, lastAIRefresh, budgetLimits,
                   aiRecommendationsError, limitsLoading, inflight, reqCount>>
    /\ UNCHANGED appVars

\* AIInsights.loadBudgetLimits when the store answers with an error: the catch
\* block logs to the console and sets the limits to []
loadBudgetLimitsFailed ==
    /\ Mounted
    /\ limitsLoading
    /\ limitsLoading' = FALSE
    /\ budgetLimits' = <<>>
    /\ OnDataChange(transactions, <<>>)
    /\ lastEvent' = Plain("loadLimitsFail")
    /\ UNCHANGED <<user, activeTab, transactions, budgetLimitsVersion, now, inst,
                   isRefreshingAI, aiRecommendationsError, inflight, reqCount>>
    /\ UNCHANGED appVars

\* the record tab and the insights tab
NextRecorder ==
    \/ MountInsights
    \/ \E tab \in Tabs : UnmountInsights(tab)
    \/ startRecordingDenied
    \/ \E spoken \in SpokenTexts : RecordAudio(spoken)
    \/ \E r \in analyses, message \in {FetchErrorMessage, JsonErrorMessage} :
          AnalyzeNoAnswer(r, message)
    \/ \E r \in analyses, served \in ServerOutcomes : AnalyzeAnswered(r, served)
    \/ resetForm
    \/ OpenManualForm
    \/ CancelManualForm
    \/ saveTransaction
    \/ \E amount \in FormAmounts :
          saveManualTransaction(Row("expense", "Groceries", amount))
    \/ \E s \in saves : InsertAccepted(s)
    \/ \E s \in saves : InsertRejected(s)
    \/ ManualRefresh
    \/ \E r \in inflight, kind \in FailureKinds : GenerateFail(r, kind)

SpecRecorder == Init /\ [][NextRecorder]_vars

\* the transactions tab and the insights tab
NextList ==
    \/ \E tab \in AppTabs : OpenTab(tab)
    \/ MountInsights
    \/ \E tab \in AppTabs : UnmountInsights(tab)
    \/ \E data \in SeedLists : FetchTransactions(data)
    \/ FetchTransactionsFailed
    \/ \E id \in TxIds, amount \in FormAmounts, ok \in BOOLEAN : saveEdit(id, amount, ok)
    \/ \E id \in TxIds, ok \in BOOLEAN : deleteRow(id, ok)
    \/ \E data \in SeedLimits : loadBudgetLimits(data)
    \/ loadBudgetLimitsFailed
    \/ ManualRefresh
    \/ \E r \in inflight, kind \in FailureKinds : GenerateFail(r, kind)
    \/ \E r \in inflight, writeOk \in BOOLEAN : GenerateSuccess(r, <<"rec1">>, writeOk)

SpecList == Init /\ [][NextList]_vars

\* lists of several rows the store returns to the transactions tab
EditSeeds ==
    {<<TxUniverse[1], TxUniverse[2], TxUniverse[3]>>,
     <<TxUniverse[9], TxUniverse[5]>>}

\* the transactions tab on lists of several rows: edits and deletes of any
\* row, accepted or rejected by the store
NextEdit ==
    \/ \E tab \in {"record", "transactions"} : OpenTab(tab)
    \/ \E data \in EditSeeds : FetchTransactions(data)
    \/ \E id \in TxIds, amount \in FormAmounts, ok \in BOOLEAN : saveEdit(id, amount, ok)
    \/ \E id \in TxIds, ok \in BOOLEAN : deleteRow(id, ok)

SpecEdit == Init /\ [][NextEdit]_vars

----------------------------------------------------------------------------
(* The month totals in the Dashboard's header *)

MaxTotalRows == 2    \* rows in the list whose month totals are shown

\* the first days of the months from 2024-05-01 to 2025-08-01, as day numbers
MonthStarts ==
    <<-396, -365, -335, -304, -273, -243, -212, -182, -151, -120, -92, -61,
      -31, 0, 30, 61>>

\* months since year 0 of a day between 2024-05-01 and 2025-08-31
MonthCount(d) ==
    2024 * 12 + 3 + Cardinality({i \in 1..Len(MonthStarts) : MonthStarts[i] <= d})

\* Date.getMonth(): 0 = January ... 11 = December
getMonth(d) == MonthCount(d) % 12

getFullYear(d) == MonthCount(d) \div 12

\* the expression under 'This Month Income' (type "income") and 'This Month
\* Expenses' (type "expense"); amounts are whole numbers, which toFixed(2)
\* renders exactly
thisMonthTotal(txs, type, today) ==
    SumAmounts(SelectSeq(txs, LAMBDA t :
        t.type = type /\ getMonth(t.created_at) = getMonth(today)))

\* rows created this month (June 2025), last month, and in June of last year
TotalsRows ==
    <<Tx(1, "income", "Salary", 2000, 0),
      Tx(2, "expense", "Groceries", 20, 0),
      Tx(3, "income", "Salary", 1900, -7),
      Tx(4, "expense", "Groceries", 21, -7),
      Tx(5, "income", "Salary", 1800, -360),
      Tx(6, "expense", "Groceries", 22, -360)>>

\* every list of at most n distinct rows of TotalsRows
TotalsLists(n) ==
    UNION {{[i \in 1..k |-> TotalsRows[f[i]]] :
               f \in {g \in [1..k -> 1..Len(TotalsRows)] :
                        \A i, j \in 1..k : i # j => g[i] # g[j]}} : k \in 0..n}

\* the Dashboard with the lists the store may return, while time passes
NextTotals ==
    \/ \E data \in TotalsLists(MaxTotalRows) : FetchTransactions(data)
    \/ \E id \in TxIds : deleteTransaction(id)
    \/ \E t \in ClockValues : Tick(t)

SpecTotals == Init /\ [][NextTotals]_vars

----------------------------------------------------------------------------
(* The budget tab: BudgetLimitsManager and table budget_limits.  The tab is  *)
(* opened from the record tab and stays open.                                *)

MaxEditorRows == 2    \* rows in the list being edited

DEFAULT_CATEGORIES ==
    <<"Food", "Shopping", "Transport", "Drinks", "Groceries",
      "Bills", "Travel", "Education", "Family", "Loans">>

\* what is typed into the category fields
TypedCategories == {"", "Food", "food"}

\* parseFloat of what is typed into a limit field (Null: the field is empty)
TypedLimits == {Null, Some(50)}

\* a row of budget_limits
StoredLimit(user_id, category, monthly_limit) ==
    [user_id |-> user_id, category |-> category, monthly_limit |-> monthly_limit]

\* the rows an insert of the list sends
limitsToInsert(limits, userId) ==
    [i \in 1..Len(limits) |-> StoredLimit(userId, limits[i].category, limits[i].monthly_limit)]

\* INSERT without the constraints of the table
InsertAllowedUnchecked(rows, table) == TRUE

\* the INSERT statement passes CHECK (monthly_limit > 0) and
\* UNIQUE(user_id, category); one row failing rejects the statement
InsertAllowed(rows, table) ==
    /\ \A i \in 1..Len(rows) : rows[i].monthly_limit > 0
    /\ \A i, j \in 1..Len(rows) :
          (rows[i].user_id = rows[j].user_id /\ rows[i].category = rows[j].category)
             => i = j
    /\ \A i \in 1..Len(rows) :
          ~\E row \in table :
              row.user_id = rows[i].user_id /\ row.category = rows[i].category

\* ORDER BY category over the categories that occur
CategoryOrder ==
    <<"", "Bills", "Food", "Rent", "Shopping", "food">>

CategoryRank(category) ==
    CHOOSE k \in 1..Len(CategoryOrder) : CategoryOrder[k] = category

\* the user's rows, ordered by category
RECURSIVE SelectLimits(_)
SelectLimits(rows) ==
    IF rows = {} THEN <<>>
    ELSE LET first == CHOOSE row \in rows :
                         \A other \in rows :
                             CategoryRank(row.category) <= CategoryRank(other.category)
         IN  <<Limit(first.category, first.monthly_limit)>>
                \o SelectLimits(rows \ {first})

\* setActiveTab('budget') on the record tab: BudgetLimitsManager mounts and
\* its effect starts loadBudgetLimits
OpenBudgetTab ==
    /\ activeTab = "record"
    /\ activeTab' = "budget"
    /\ RecorderUnmount
    /\ editorLimits' = <<>>
    /\ managerLoading' = TRUE
    /\ saving' = FALSE
    /\ limitsError' = ""
    /\ success' = ""
    /\ lastEvent' = Plain("tab")
    /\ UNCHANGED <<user, transactions, budgetLimitsVersion, now, storage, storedFor,
                   inst, basicInsights, aiRecommendations, cachedAIRecommendations,
                   isRefreshingAI, lastAIRefresh, budgetLimits, aiRecommendationsError,
                   limitsLoading, inflight, reqCount, alertText, lastWrite, proxyReply>>
    /\ UNCHANGED <<saveJob, storedLimits, profileKey, subscriptionStatus,
                   hasOpenAIKey, checkingApiKey, lastServed>>

\* what every handler of the editor leaves alone
ManagerFrame ==
    /\ UNCHANGED <<user, activeTab, transactions, now, storage, storedFor, inst,
                   basicInsights, aiRecommendations, cachedAIRecommendations,
                   isRefreshingAI, lastAIRefresh, budgetLimits, aiRecommendationsError,
                   inflight, reqCount>>
    /\ UNCHANGED <<recorderVars, alertText, lastWrite, proxyReply>>
    /\ UNCHANGED <<profileKey, subscriptionStatus, hasOpenAIKey, checkingApiKey,
                   lastServed>>

\* BudgetLimitsManager.loadBudgetLimits with the answer of the store
ManagerLoaded(ok) ==
    /\ activeTab = "budget"
    /\ managerLoading
    /\ managerLoading' = FALSE
    /\ IF ok
       THEN /\ editorLimits' = SelectLimits({row \in storedLimits : row.user_id = user})
            /\ UNCHANGED limitsError
       ELSE /\ limitsError' = "Failed to load budget limits"
            /\ UNCHANGED editorLimits
    /\ lastEvent' = Plain("managerLoaded")
    /\ UNCHANGED <<saving, success, saveJob, storedLimits, budgetLimitsVersion,
                   limitsLoading>>
    /\ ManagerFrame

\* the editor is on screen
EditorShown == activeTab = "budget" /\ ~managerLoading

\* addBudgetLimit: newCategory and newLimit are the two fields of the form
addBudgetLimit(newCategory, newLimit) ==
    /\ EditorShown
    /\ IF newCategory = "" \/ newLimit = Null \/ newLimit[1] <= 0
       THEN /\ limitsError' = "Please enter a valid category and limit amount"
            /\ UNCHANGED editorLimits
       ELSE IF \E i \in 1..Len(editorLimits) :
                  toLowerCase(editorLimits[i].category) = toLowerCase(newCategory)
       THEN /\ limitsError' = "Budget limit for this category already exists"
            /\ UNCHANGED editorLimits
       ELSE /\ Len(editorLimits) < MaxEditorRows
            /\ editorLimits' = Append(editorLimits, Limit(newCategory, newLimit[1]))
            /\ limitsError' = ""
    /\ lastEvent' = Plain("addLimit")
    /\ UNCHANGED <<managerLoading, saving, success, saveJob, storedLimits,
                   budgetLimitsVersion, limitsLoading>>
    /\ ManagerFrame

\* updateBudgetLimit(index, 'category', value)
updateCategory(index, value) ==
    /\ EditorShown
    /\ index \in 1..Len(editorLimits)
    /\ editorLimits' = [editorLimits EXCEPT ![index].category = value]
    /\ lastEvent' = Plain("editLimit")
    /\ UNCHANGED <<managerLoading, saving, limitsError, success, saveJob, storedLimits,
                   budgetLimitsVersion, limitsLoading>>
    /\ ManagerFrame

\* updateBudgetLimit(index, 'monthly_limit', parseFloat(e.target.value) || 0)
updateMonthlyLimit(index, typed) ==
    /\ EditorShown
    /\ index \in 1..Len(editorLimits)
    /\ editorLimits' = [editorLimits EXCEPT
                          ![index].monthly_limit = IF typed = Null THEN 0 ELSE typed[1]]
    /\ lastEvent' = Plain("editLimit")
    /\ UNCHANGED <<managerLoading, saving, limitsError, success, saveJob, storedLimits,
                   budgetLimitsVersion, limitsLoading>>
    /\ ManagerFrame

removeBudgetLimit(index) ==
    /\ EditorShown
    /\ index \in 1..Len(editorLimits)
    /\ editorLimits' = [i \in 1..(Len(editorLimits) - 1) |->
                          IF i < index THEN editorLimits[i] ELSE editorLimits[i + 1]]
    /\ lastEvent' = Plain("removeLimit")
    /\ UNCHANGED <<managerLoading, saving, limitsError, success, saveJob, storedLimits,
                   budgetLimitsVersion, limitsLoading>>
    /\ ManagerFrame

\* addPresetCategory: the buttons shown are the presets not yet in the list
addPresetCategory(category) ==
    /\ EditorShown
    /\ \E k \in 1..Len(DEFAULT_CATEGORIES) : DEFAULT_CATEGORIES[k] = category
    /\ ~\E i \in 1..Len(editorLimits) : editorLimits[i].category = category
    /\ Len(editorLimits) < MaxEditorRows
    /\ editorLimits' = Append(editorLimits, Limit(category, 0))
    /\ lastEvent' = Plain("presetLimit")
    /\ UNCHANGED <<managerLoading, saving, limitsError, success, saveJob, storedLimits,
                   budgetLimitsVersion, limitsLoading>>
    /\ ManagerFrame

\* saveBudgetLimits up to the await of the delete
saveBudgetLimits ==
    /\ EditorShown
    /\ ~saving
    /\ budgetLimitsVersion < MaxSaves
    /\ saving' = TRUE
    /\ limitsError' = ""
    /\ success' = ""
    /\ saveJob' = Some([limits |-> editorLimits, userId |-> user, step |-> "delete"])
    /\ lastEvent' = Plain("saveLimitsStart")
    /\ UNCHANGED <<editorLimits, managerLoading, storedLimits, budgetLimitsVersion,
                   limitsLoading>>
    /\ ManagerFrame

\* a catch block that also calls onLimitsUpdated
SaveFailedNotifies ==
    /\ limitsError' = "Failed to save budget limits"
    /\ saving' = FALSE
    /\ saveJob' = Null
    /\ lastEvent' = Plain("saveLimitsFail")
    /\ budgetLimitsVersion' = budgetLimitsVersion + 1
    /\ limitsLoading' = Mounted
    /\ UNCHANGED success

\* saveBudgetLimits, catch and finally
SaveFailed ==
    /\ limitsError' = "Failed to save budget limits"
    /\ saving' = FALSE
    /\ saveJob' = Null
    /\ lastEvent' = Plain("saveLimitsFail")
    /\ UNCHANGED <<success, budgetLimitsVersion, limitsLoading>>

\* saveBudgetLimits after its store calls: setSuccess, onLimitsUpdated (the
\* Dashboard's handleBudgetLimitsUpdated), finally
SaveSucceeded ==
    /\ success' = "Budget limits saved successfully!"
    /\ budgetLimitsVersion' = budgetLimitsVersion + 1
    /\ limitsLoading' = Mounted
    /\ saving' = FALSE
    /\ saveJob' = Null
    /\ lastEvent' = Plain("saveLimits")
    /\ UNCHANGED limitsError

\* the store answers the delete of the user's rows
DeleteAnswered(ok) ==
    /\ saveJob # Null
    /\ saveJob[1].step = "delete"
    /\ IF ~ok
       THEN /\ SaveFailed
            /\ UNCHANGED storedLimits
       ELSE /\ storedLimits' = {row \in storedLimits : row.user_id # saveJob[1].userId}
            /\ IF Len(saveJob[1].limits) > 0
               THEN /\ saveJob' = Some([saveJob[1] EXCEPT !.step = "insert"])
                    /\ lastEvent' = Plain("limitsDeleted")
                    /\ UNCHANGED <<saving, limitsError, success, budgetLimitsVersion,
                                   limitsLoading>>
               ELSE SaveSucceeded
    /\ UNCHANGED <<editorLimits, managerLoading>>
    /\ ManagerFrame

\* the store answers the insert of the list; ok: the request reached the table
InsertAnswered(ok) ==
    /\ saveJob # Null
    /\ saveJob[1].step = "insert"
    /\ LET rows == limitsToInsert(saveJob[1].limits, saveJob[1].userId)
       IN  IF ok /\ InsertAllowed(rows, storedLimits)
           THEN /\ storedLimits' = storedLimits \cup {rows[i] : i \in 1..Len(rows)}
                /\ SaveSucceeded
           ELSE /\ SaveFailed
                /\ UNCHANGED storedLimits
    /\ UNCHANGED <<editorLimits, managerLoading>>
    /\ ManagerFrame

\* the timer that clears the success message after 3 seconds
ClearSuccess ==
    /\ success # ""
    /\ success' = ""
    /\ lastEvent' = Plain("clearSuccess")
    /\ UNCHANGED <<editorLimits, managerLoading, saving, limitsError, saveJob,
                   storedLimits, budgetLimitsVersion, limitsLoading>>
    /\ ManagerFrame

NextBudget ==
    \/ OpenBudgetTab
    \/ \E ok \in BOOLEAN : ManagerLoaded(ok)
    \/ \E newCategory \in TypedCategories, newLimit \in TypedLimits :
          addBudgetLimit(newCategory, newLimit)
    \/ \E index \in 1..MaxEditorRows, value \in TypedCategories \ {""} :
          updateCategory(index, value)
    \/ \E index \in 1..MaxEditorRows, typed \in TypedLimits :
          updateMonthlyLimit(index, typed)
    \/ \E index \in 1..MaxEditorRows : removeBudgetLimit(index)
    \/ addPresetCategory("Food")
    \/ saveBudgetLimits
    \/ \E ok \in BOOLEAN : DeleteAnswered(ok)
    \/ \E ok \in BOOLEAN : InsertAnswered(ok)
    \/ ClearSuccess

SpecBudget == Init /\ [][NextBudget]_vars

----------------------------------------------------------------------------
(* The two edge functions (ai-insights, analyze-audio), their choice of the *)
(* OpenAI key, and the key gate of the Dashboard                            *)

Methods == {"OPTIONS", "GET", "POST"}

\* how a lookup in the store ends: answered with the rows asked for, answered
\* with a non-2xx status, or the fetch itself rejects
LookupAnswers == {"ok", "status", "throw"}

\* what the chat-completions call of ai-insights brings back: a JSON array,
\* a non-2xx status, or content that is not a JSON array
ProviderAnswers == {"ok", "status", "malformed"}

\* Deno.env.get('OPENAI_API_KEY'): "" when the variable is not set
ServerKeys == {"", "sk-server"}

\* user_profiles.openai_api_key: "" when the column is null or empty
StoredKeys == {"", "sk-user"}

\* "none": the user has no customer row; otherwise the status of the first
\* subscription row of the user's customer
SubscriptionStates == {"none", "active", "canceled"}

\* the answers of the store and the environment of one request
Backend(serverKey, customers, subscriptions, profile) ==
    [serverKey |-> serverKey, customers |-> customers,
     subscriptions |-> subscriptions, profile |-> profile]

Backends ==
    {Backend(serverKey, customers, subscriptions, profile) :
        serverKey \in ServerKeys, customers \in LookupAnswers,
        subscriptions \in LookupAnswers, profile \in LookupAnswers}

FetchRejected == "fetch failed"

\* what getOpenAIApiKey returns: a key ("" for null), or thrown # ""
KeyResult(openaiApiKey, thrown) == [openaiApiKey |-> openaiApiKey, thrown |-> thrown]

\* the branch both functions share once hasActivePro is known
selectKey(hasActivePro, stored, backend) ==
    IF hasActivePro
    THEN IF backend.serverKey = ""
         THEN KeyResult("", "Server configuration error: OpenAI API key not configured for Pro users")
         ELSE KeyResult(backend.serverKey, "")
    ELSE IF backend.profile = "throw" THEN KeyResult("", FetchRejected)
    ELSE IF backend.profile = "status" THEN KeyResult("", "Failed to fetch user profile")
    ELSE KeyResult(stored, "")

\* hasActivePro with the initial value true: a lookup that is not answered
\* leaves the user Pro
hasActiveProAudioOptimistic(subscription, backend) ==
    backend.subscriptions # "ok" \/ subscription = "active"

\* analyze-audio: hasActivePro after the one lookup in stripe_user_subscriptions
hasActiveProAudio(subscription, backend) ==
    backend.subscriptions = "ok" /\ subscription = "active"

\* ai-insights: hasActivePro after the lookup of the customer and, when there
\* is one, of its subscription
hasActiveProInsights(subscription, backend) ==
    /\ backend.customers = "ok"
    /\ subscription # "none"
    /\ backend.subscriptions = "ok"
    /\ subscription = "active"

\* getOpenAIApiKey of ai-insights
getOpenAIApiKeyInsights(subscription, stored, backend) ==
    IF backend.customers = "throw" THEN KeyResult("", FetchRejected)
    ELSE IF /\ backend.customers = "ok"
            /\ subscription # "none"
            /\ backend.subscriptions = "throw"
    THEN KeyResult("", FetchRejected)
    ELSE selectKey(hasActiveProInsights(subscription, backend), stored, backend)

\* getOpenAIApiKey of analyze-audio
getOpenAIApiKeyAudio(subscription, stored, backend) ==
    IF backend.subscriptions = "throw" THEN KeyResult("", FetchRejected)
    ELSE selectKey(hasActiveProAudio(subscription, backend), stored, backend)

PreflightResponse == [status |-> 200, body |-> Null]

MethodNotAllowed == [status |-> 405, body |-> [error |-> "Method not allowed"]]

KeyNotAvailable ==
    "OpenAI API key not available. Please upgrade to Pro or add your own API key."

\* what one request did: the response and the keys sent to the AI provider
Exchange(response, openaiCalls) == [response |-> response, openaiCalls |-> openaiCalls]

\* the recommendations ai-insights returns for the array the model wrote
FormatRecommendations(recs) ==
    [i \in 1..Len(recs) |->
        [title |-> IF recs[i].title = "" THEN "Financial Recommendation"
                   ELSE recs[i].title,
         impact |-> IF recs[i].impact = "" THEN "medium" ELSE recs[i].impact]]

ProviderArray == <<[title |-> "Cut dining out", impact |-> "high"],
                   [title |-> "", impact |-> ""]>>

\* generateAIRecommendations: one chat-completions call, every failure thrown
generateAIRecommendations(openaiApiKey, provider) ==
    IF provider = "ok"
    THEN Exchange([status |-> 200,
                   body |-> [recommendations |-> FormatRecommendations(ProviderArray)]],
                  {openaiApiKey})
    ELSE IF provider = "status"
    THEN Exchange(ErrorResponse("OpenAI API error: Unknown error"), {openaiApiKey})
    ELSE Exchange(ErrorResponse("recommendations.map is not a function"), {openaiApiKey})

\* the try block of ai-insights without the test of the key
insightsPostNoKeyCheck(userId, k, provider) ==
    IF userId = "" THEN Exchange(ErrorResponse("User ID is required"), {})
    ELSE IF k.thrown # "" THEN Exchange(ErrorResponse(k.thrown), {})
    ELSE generateAIRecommendations(k.openaiApiKey, provider)

\* the try block of ai-insights, the body parsed
insightsPost(userId, k, provider) ==
    IF userId = "" THEN Exchange(ErrorResponse("User ID is required"), {})
    ELSE IF k.thrown # "" THEN Exchange(ErrorResponse(k.thrown), {})
    ELSE IF k.openaiApiKey = "" THEN Exchange(ErrorResponse(KeyNotAvailable), {})
    ELSE generateAIRecommendations(k.openaiApiKey, provider)

\* the handler of ai-insights.  json is FALSE when req.json() throws
aiInsights(method, json, userId, subscription, stored, backend, provider) ==
    IF method = "OPTIONS" THEN Exchange(PreflightResponse, {})
    ELSE IF method # "POST" THEN Exchange(MethodNotAllowed, {})
    ELSE IF ~json THEN Exchange(ErrorResponse("Unexpected end of JSON input"), {})
    ELSE insightsPost(userId,
                      getOpenAIApiKeyInsights(subscription, stored, backend),
                      provider)

\* the handler of analyze-audio; after the key is chosen it goes on as
\* analyzeAudio does.  The transcription and the chat analysis are sent with
\* the chosen key
analyzeAudioEndpoint(method, json, request, subscription, stored, backend, whisper, ai) ==
    IF method = "OPTIONS" THEN Exchange(PreflightResponse, {})
    ELSE IF method # "POST" THEN Exchange(MethodNotAllowed, {})
    ELSE IF ~json THEN Exchange(ErrorResponse("Unexpected end of JSON input"), {})
    ELSE IF request.userId = ""
    THEN Exchange(analyzeAudio(request, "key", whisper, ai), {})
    ELSE LET k == getOpenAIApiKeyAudio(subscription, stored, backend)
         IN  IF k.thrown # "" THEN Exchange(ErrorResponse(k.thrown), {})
             ELSE IF k.openaiApiKey = ""
             THEN Exchange(analyzeAudio(request, "none", whisper, ai), {})
             ELSE Exchange(analyzeAudio(request, "key", whisper, ai),
                           IF (request.transcript = "" /\ request.audioData)
                              \/ request.transcript # ""
                           THEN {k.openaiApiKey} ELSE {})

\* one request served by ai-insights
ServeInsights(method, json, userId, backend, provider) ==
    /\ lastServed' =
          Some([endpoint |-> "ai-insights", method |-> method, json |-> json,
                userId |-> userId, subscription |-> subscriptionStatus,
                stored |-> profileKey, backend |-> backend,
                exchange |-> aiInsights(method, json, userId, subscriptionStatus,
                                        profileKey, backend, provider)])
    /\ UNCHANGED <<dashboardVars, recorderVars, alertText, lastWrite, proxyReply,
                   editorLimits, managerLoading, saving, limitsError, success,
                   saveJob, storedLimits, profileKey, subscriptionStatus,
                   hasOpenAIKey, checkingApiKey>>

\* one request served by analyze-audio
ServeAudio(method, json, userId, backend, whisper, ai) ==
    /\ lastServed' =
          Some([endpoint |-> "analyze-audio", method |-> method, json |-> json,
                userId |-> userId, subscription |-> subscriptionStatus,
                stored |-> profileKey, backend |-> backend,
                exchange |-> analyzeAudioEndpoint(method, json, AudioRequest(userId),
                                                  subscriptionStatus, profileKey,
                                                  backend, whisper, ai)])
    /\ UNCHANGED <<dashboardVars, recorderVars, alertText, lastWrite, proxyReply,
                   editorLimits, managerLoading, saving, limitsError, success,
                   saveJob, storedLimits, profileKey, subscriptionStatus,
                   hasOpenAIKey, checkingApiKey>>

\* Dashboard.checkOpenAIKey: answered is FALSE when the select reports an error
\* or throws
checkOpenAIKey(answered) ==
    /\ checkingApiKey
    /\ hasOpenAIKey' = (answered /\ profileKey # "")
    /\ checkingApiKey' = FALSE
    /\ lastEvent' = Plain("checkKey")
    /\ UNCHANGED <<user, activeTab, transactions, budgetLimitsVersion, now, storage,
                   storedFor, inst, basicInsights, aiRecommendations,
                   cachedAIRecommendations, isRefreshingAI, lastAIRefresh,
                   budgetLimits, aiRecommendationsError, limitsLoading, inflight,
                   reqCount, recorderVars, alertText, lastWrite, proxyReply>>
    /\ UNCHANGED <<editorLimits, managerLoading, saving, limitsError, success,
                   saveJob, storedLimits, profileKey, subscriptionStatus, lastServed>>

\* OpenAIKeySetup.handleSubmit, shown by the Dashboard while hasOpenAIKey is
\* false: the key is tested, written to the profile, and onKeySet
\* (handleApiKeySet) opens the Dashboard
handleSubmit(apiKey, isValid, updated) ==
    /\ ~checkingApiKey
    /\ ~hasOpenAIKey
    /\ apiKey # ""
    /\ IF isValid /\ updated
       THEN /\ profileKey' = apiKey
            /\ hasOpenAIKey' = TRUE
            /\ lastEvent' = Plain("keySet")
       ELSE /\ UNCHANGED <<profileKey, hasOpenAIKey>>
            /\ lastEvent' = Plain("keyRejected")
    /\ UNCHANGED <<user, activeTab, transactions, budgetLimitsVersion, now, storage,
                   storedFor, inst, basicInsights, aiRecommendations,
                   cachedAIRecommendations, isRefreshingAI, lastAIRefresh,
                   budgetLimits, aiRecommendationsError, limitsLoading, inflight,
                   reqCount, recorderVars, alertText, lastWrite, proxyReply>>
    /\ UNCHANGED <<editorLimits, managerLoading, saving, limitsError, success,
                   saveJob, storedLimits, subscriptionStatus, checkingApiKey,
                   lastServed>>

\* the Dashboard has just been mounted for a signed-in user: the key check is
\* pending; the profile and the subscription are what the store holds
InitAccess ==
    /\ user = "userA"
    /\ activeTab = "record"
    /\ transactions = <<>>
    /\ budgetLimitsVersion = 0
    /\ now = 0
    /\ storage = NoEntry
    /\ storedFor = "none"
    /\ inst = 0
    /\ basicInsights = EmptyInsights
    /\ aiRecommendations = <<>>
    /\ cachedAIRecommendations = Null
    /\ isRefreshingAI = FALSE
    /\ lastAIRefresh = Null
    /\ budgetLimits = <<>>
    /\ aiRecommendationsError = ""
    /\ limitsLoading = FALSE
    /\ inflight = {}
    /\ reqCount = 0
    /\ lastEvent = Plain("init")
    /\ RecorderInitial
    /\ analyses = {}
    /\ saves = {}
    /\ alertText = ""
    /\ lastWrite = Null
    /\ proxyReply = Null
    /\ editorLimits = <<>>
    /\ managerLoading = TRUE
    /\ saving = FALSE
    /\ limitsError = ""
    /\ success = ""
    /\ saveJob = Null
    /\ storedLimits = {}
    /\ profileKey \in StoredKeys
    /\ subscriptionStatus \in SubscriptionStates
    /\ hasOpenAIKey = FALSE
    /\ checkingApiKey = TRUE
    /\ lastServed = Null

\* the gate, and one request to either function per behaviour
NextAccess ==
    \/ \E answered \in BOOLEAN : checkOpenAIKey(answered)
    \/ \E isValid, updated \in BOOLEAN : handleSubmit("sk-user", isValid, updated)
    \/ /\ lastServed = Null
       /\ \E method \in Methods, json \in BOOLEAN, userId \in {"", "userA"},
             backend \in Backends, provider \in ProviderAnswers :
             ServeInsights(method, json, userId, backend, provider)
    \/ /\ lastServed = Null
       /\ \E method \in Methods, json \in BOOLEAN, userId \in {"", "userA"},
             backend \in Backends,
             whisper \in {Null, Some(""), Some("I spent $25 on groceries")},
             ai \in {r \in AIOutcomes : r.kind = "network" \/ r.analysis.type = "income"} :
             ServeAudio(method, json, userId, backend, whisper, ai)

SpecAccess == InitAccess /\ [][NextAccess]_vars

----------------------------------------------------------------------------
(* Properties of the recommendation cache (checked under Spec) *)

\* C1: a stored entry is accepted by the cache-load effect exactly when
\* now - timestamp < 604800000 ms (an entry aged exactly 7 days is rejected and
\* removed), and isCacheValid is true exactly when the in-memory record exists
\* and now - timestamp < 604800000
C1_CacheValidity ==
    /\ (lastEvent.op = "load" /\ lastEvent.age >= 0) =>
          /\ (cachedAIRecommendations # Null) <=> (lastEvent.age < 604800000)
          /\ (storage # NoEntry) <=> (lastEvent.age < 604800000)
    /\ isCacheValid <=>
          (/\ cachedAIRecommendations # Null
           /\ now - cachedAIRecommendations[1].timestamp < 604800000)

C1_Witness ==
    /\ lastEvent.op = "load"
    /\ lastEvent.age = 604800000
    /\ cachedAIRecommendations = Null
    /\ storage = NoEntry

\* C2: when the view loads and the stored entry is expired (age >= 7 days) the
\* entry is removed, no recommendations are displayed and no request is sent;
\* a request to the recommendation endpoint is sent only by a manual refresh
C2_ExpiredLoadNoAutoRefresh ==
    [][/\ (lastEvent'.op = "load" /\ lastEvent'.age >= 604800000) =>
             /\ storage' = NoEntry
             /\ cachedAIRecommendations' = Null
             /\ aiRecommendations' = <<>>
             /\ inflight' = inflight
       /\ (reqCount' # reqCount \/ ~(inflight' \subseteq inflight)) =>
             lastEvent'.op = "manualRefresh"]_vars

C2_Witness ==
    /\ Mounted
    /\ lastEvent.op = "load"
    /\ lastEvent.age >= 604800000
    /\ storage = NoEntry
    /\ aiRecommendations = <<>>
    /\ reqCount < MaxRequests

\* C3 as claimed: when generate() succeeds the stored entry is overwritten with
\* {data: the returned recommendations, timestamp: now} and the displayed
\* recommendations equal the returned ones
C3_Original ==
    [][lastEvent'.op = "generateSuccess" =>
          /\ storage' = JSONstringify([data |-> lastEvent'.data, timestamp |-> now])
          /\ aiRecommendations' = lastEvent'.data]_vars

\* C3 amended: when generate() succeeds and the view that started it is still
\* mounted, the in-memory record becomes {data, now} and the displayed
\* recommendations equal the returned ones; when that view was unmounted in the
\* meantime nothing on screen changes; the stored entry is overwritten with
\* {data, now} when localStorage.setItem returns and is left as it was when it throws
C3_GenerateSuccess ==
    [][lastEvent'.op = "generateSuccess" =>
          LET c == [data |-> lastEvent'.data, timestamp |-> now]
          IN  /\ lastEvent'.live =>
                    /\ cachedAIRecommendations' = Some(c)
                    /\ aiRecommendations' = c.data
                    /\ lastAIRefresh' = Some(now)
              /\ ~lastEvent'.live =>
                    UNCHANGED <<cachedAIRecommendations, aiRecommendations,
                                lastAIRefresh>>
              /\ lastEvent'.wrote => storage' = JSONstringify(c)
              /\ ~lastEvent'.wrote => storage' = storage]_vars

C3_Witness ==
    /\ lastEvent.op = "generateSuccess"
    /\ lastEvent.live
    /\ lastEvent.wrote
    /\ lastEvent.data # <<>>
    /\ aiRecommendations = lastEvent.data
    /\ storage = JSONstringify([data |-> lastEvent.data, timestamp |-> now])

C5_ManualRefreshClears ==
    [][/\ lastEvent'.op = "manualRefresh" =>
             /\ storage' = NoEntry
             /\ cachedAIRecommendations' = Null
             /\ isRefreshingAI'
             /\ reqCount' = reqCount + 1
       /\ reqCount' # reqCount => storage' = NoEntry]_vars

C5_Witness ==
    /\ lastEvent.op = "manualRefresh"
    /\ lastEvent.age >= 0
    /\ lastEvent.age < 604800000
    /\ storage = NoEntry
    /\ inflight # {}

\* C6: storage is one slot holding no entry or a single {data, timestamp}; an
\* entry younger than 7 days is loaded and displayed whoever is signed in,
\* also when it was generated for another user
C6_SingleSlotNotPerUser ==
    /\ storage = NoEntry \/ (Len(storage) = 3 /\ storage[1] = "json")
    /\ (lastEvent.op = "load" /\ lastEvent.age >= 0 /\ lastEvent.age < 604800000) =>
          /\ storage # NoEntry
          /\ aiRecommendations = JSONparse(storage).data
          /\ cachedAIRecommendations = Some(JSONparse(storage))

C6_Witness ==
    /\ lastEvent.op = "load"
    /\ storage # NoEntry
    /\ storedFor \notin {"none", user}
    /\ aiRecommendations # <<>>
    /\ aiRecommendations = JSONparse(storage).data

\* C7: adding, editing or deleting transactions, a refetch and saving or
\* reloading budget limits leave the stored entry, the in-memory record and
\* the displayed recommendations unchanged; the stored entry changes only by
\* an expired load, a successful generate() or a manual refresh, and the
\* recommendations a mounted view displays change only by a successful generate()
C7_DataChangesKeepCache ==
    [][/\ lastEvent'.op \in {"add", "update", "delete", "saveLimits", "fetch",
                             "loadLimits"} =>
             UNCHANGED <<storage, cachedAIRecommendations, aiRecommendations,
                         lastAIRefresh>>
       /\ storage' # storage =>
             \/ lastEvent'.op \in {"generateSuccess", "manualRefresh"}
             \/ lastEvent'.op = "load" /\ lastEvent'.age >= 604800000
       /\ (Mounted /\ Mounted' /\ aiRecommendations' # aiRecommendations) =>
             lastEvent'.op = "generateSuccess"]_vars

C7_Witness ==
    /\ lastEvent.op \in {"add", "update", "delete", "saveLimits"}
    /\ Mounted
    /\ storage # NoEntry
    /\ aiRecommendations # <<>>
    /\ aiRecommendations = JSONparse(storage).data

----------------------------------------------------------------------------
(* Properties of generateBasicInsights (checked under SpecInsights) *)

\* C8 as claimed: a budget alert exists for a category if and only if a limit
\* exists for it and the category's expense total of the current calendar month
\* is strictly greater than the limit, and the alert carries spent = that total,
\* budget = the limit and overBudget = spent - limit
C8_MonthlyBudgetAlerts ==
    \A c \in {TxUniverse[i].category : i \in TxIds} :
        LET alerts == basicInsights.budgetAlerts
            spent == CategoryTotal(
                        Expenses(currentMonthTransactions(transactions, Today(now))), c)
            k == FindLimit(budgetLimits, c)
        IN  /\ (\E i \in 1..Len(alerts) : alerts[i].category = c) <=>
                  (k # 0 /\ spent > budgetLimits[k].monthly_limit)
            /\ \A i \in 1..Len(alerts) :
                  alerts[i].category = c =>
                     /\ alerts[i].spent = spent
                     /\ alerts[i].budget = budgetLimits[k].monthly_limit
                     /\ alerts[i].overBudget = spent - budgetLimits[k].monthly_limit

\* C9: for every entry of the trend output, with lastWeek and prior the
\* category's expense totals of the two windows: percentage equals
\* |lastWeek - prior| / prior * 100 when prior > 0; isNew holds iff prior = 0
\* and lastWeek > 0, and then the percentage is 100
C9_TrendPercentage ==
    \A i \in 1..Len(basicInsights.spendingTrends) :
        LET t == basicInsights.spendingTrends[i]
            lastWeek == CategoryTotal(
                           lastWeekTransactions(transactions, Today(now)), t.category)
            prior == CategoryTotal(
                        sameWeekLastMonthTransactions(transactions, Today(now)),
                        t.category)
        IN  /\ t.percentage.den > 0
            /\ prior > 0 =>
                  t.percentage.num * prior = Abs(lastWeek - prior) * 100 * t.percentage.den
            /\ t.isNew <=> (prior = 0 /\ lastWeek > 0)
            /\ t.isNew => t.percentage.num = 100 * t.percentage.den

C9_Witness ==
    /\ \E i \in 1..Len(basicInsights.spendingTrends) :
          LET t == basicInsights.spendingTrends[i]
          IN  ~t.isNew /\ t.lastMonthAmount > t.amount /\ t.percentage.num > 0
    /\ \E i \in 1..Len(basicInsights.spendingTrends) :
          basicInsights.spendingTrends[i].isNew

\* C10: for every entry of the trend output with prior > 0 the trend is
\* increasing iff (lastWeek - prior) / prior * 100 > 5, decreasing iff it is
\* < -5 and stable otherwise (exactly +5% and -5% are stable); an entry with
\* prior = 0 and lastWeek > 0 is increasing
C10_TrendClassification ==
    \A i \in 1..Len(basicInsights.spendingTrends) :
        LET t == basicInsights.spendingTrends[i]
            lastWeek == CategoryTotal(
                           lastWeekTransactions(transactions, Today(now)), t.category)
            prior == CategoryTotal(
                        sameWeekLastMonthTransactions(transactions, Today(now)),
                        t.category)
            change100 == (lastWeek - prior) * 100      \* signed change times prior
        IN  /\ t.trend \in {"increasing", "decreasing", "stable"}
            /\ prior > 0 =>
                  /\ t.trend = "increasing" <=> change100 > 5 * prior
                  /\ t.trend = "decreasing" <=> change100 < (-5) * prior
            /\ (prior = 0 /\ lastWeek > 0) => t.trend = "increasing"

C10_Witness ==
    /\ \E i \in 1..Len(basicInsights.spendingTrends) :
          LET t == basicInsights.spendingTrends[i]
          IN  /\ t.lastMonthAmount > 0
              /\ (t.amount - t.lastMonthAmount) * 100 = 5 * t.lastMonthAmount
              /\ t.trend = "stable"
    /\ \E i \in 1..Len(basicInsights.spendingTrends) :
          LET t == basicInsights.spendingTrends[i]
          IN  t.lastMonthAmount = 0 /\ t.trend = "increasing"

----------------------------------------------------------------------------
(* Properties of the trend list and the patterns (checked under SpecTrends) *)

\* the categories of the transaction list
ListCategories == {transactions[i].category : i \in 1..Len(transactions)}

\* a category's expense total in the last-week window and in the prior window
LastWeekTotal(c) ==
    CategoryTotal(lastWeekTransactions(transactions, Today(now)), c)

PriorTotal(c) ==
    CategoryTotal(sameWeekLastMonthTransactions(transactions, Today(now)), c)

TrendCategoriesShown ==
    {basicInsights.spendingTrends[i].category :
        i \in 1..Len(basicInsights.spendingTrends)}

\* C11 as claimed: every category with expense spending in the last-week
\* window or in the prior window has a trend entry, subject only to the top-5
\* cut: when at most 5 categories have spending in either window each of them
\* has an entry, also one whose spending lies only in the prior window
C11_Original ==
    LET either == {c \in ListCategories : LastWeekTotal(c) > 0 \/ PriorTotal(c) > 0}
    IN  /\ Cardinality(either) <= TopN => either \subseteq TrendCategoriesShown
        /\ Cardinality(either) > TopN => Len(basicInsights.spendingTrends) = TopN

\* C11 amended: a category has a trend entry only if it has expense spending
\* in the last-week window; every such category has one, subject only to the
\* top-5 cut; a category whose spending lies only in the prior window has none
C11_TrendCoverage ==
    LET current == {c \in ListCategories : LastWeekTotal(c) > 0}
    IN  /\ TrendCategoriesShown \subseteq current
        /\ Cardinality(current) <= TopN => TrendCategoriesShown = current
        /\ Cardinality(TrendCategoriesShown) = Len(basicInsights.spendingTrends)
        /\ Len(basicInsights.spendingTrends) =
              (IF Cardinality(current) <= TopN THEN Cardinality(current) ELSE TopN)
        /\ \A c \in ListCategories :
              (LastWeekTotal(c) = 0 /\ PriorTotal(c) > 0) =>
                 c \notin TrendCategoriesShown

C11_Witness ==
    /\ \E c \in ListCategories :
          LastWeekTotal(c) = 0 /\ PriorTotal(c) > 0 /\ c \notin TrendCategoriesShown
    /\ \E c \in ListCategories :
          LastWeekTotal(c) > 0 /\ PriorTotal(c) = 0 /\ c \in TrendCategoriesShown
    /\ Len(basicInsights.spendingTrends) < TopN

\* C12: the trend list is ordered by last-week amount, non-increasing, has at
\* most 5 entries, and no category left out by the cut has a larger last-week
\* amount than a category that is included
C12_SortedTopFive ==
    LET trends == basicInsights.spendingTrends
    IN  /\ Len(trends) <= 5
        /\ \A i, j \in 1..Len(trends) : i < j => trends[i].amount >= trends[j].amount
        /\ \A i \in 1..Len(trends) : trends[i].amount = LastWeekTotal(trends[i].category)
        /\ \A c \in ListCategories \ TrendCategoriesShown :
              \A i \in 1..Len(trends) : LastWeekTotal(c) <= trends[i].amount

C12_Witness ==
    /\ Len(basicInsights.spendingTrends) = 5
    /\ \E c \in ListCategories \ TrendCategoriesShown : LastWeekTotal(c) > 0
    /\ basicInsights.spendingTrends[1].amount > basicInsights.spendingTrends[5].amount
    /\ Len(transactions) > 5
    /\ LastWeekTotal(transactions[1].category) <
          LastWeekTotal(transactions[Len(transactions)].category)

\* the expense totals of Saturdays and Sundays, and of Mondays to Fridays
WeekendTotal ==
    SumAmounts(SelectSeq(transactions, LAMBDA t :
        t.type = "expense" /\ t.created_at % 7 \in {0, 6}))

WeekdayTotal ==
    SumAmounts(SelectSeq(transactions, LAMBDA t :
        t.type = "expense" /\ t.created_at % 7 \in 1..5))

WeekendPatternShown ==
    \E i \in 1..Len(basicInsights.patterns) :
        basicInsights.patterns[i].type = "weekend_spending"

\* C13: the weekend-spending pattern is emitted if and only if the weekend
\* expense total is > 0, the weekday expense total is > 0 and
\* weekend / (weekend + weekday) > 35% strictly (exactly 35% does not fire);
\* income transactions count towards neither total
C13_WeekendPattern ==
    WeekendPatternShown <=>
        /\ WeekendTotal > 0
        /\ WeekdayTotal > 0
        /\ WeekendTotal * 100 > 35 * (WeekendTotal + WeekdayTotal)

C13_Witness ==
    /\ ~WeekendPatternShown
    /\ WeekendTotal > 0
    /\ WeekendTotal * 100 = 35 * (WeekendTotal + WeekdayTotal)
    /\ \E i \in 1..Len(transactions) : transactions[i].type = "income"

----------------------------------------------------------------------------
(* Properties of the analyze-audio function (checked under SpecProxy) *)

\* the last request was answered with status 200
Answered == proxyReply # Null /\ proxyReply[1].response.status = 200

\* the chat-analysis call of the last request failed: network error, non-2xx
\* status, empty content, malformed JSON, or a reply without type, category
\* or a numeric amount
AIFailed ==
    \/ proxyReply[1].ai.kind # "reply"
    \/ proxyReply[1].ai.analysis.type = ""
    \/ proxyReply[1].ai.analysis.category = ""
    \/ proxyReply[1].ai.analysis.amount = Null

\* the first number written in a text, in hundredths: its first run of
\* digits with the decimal fraction that follows it (0 when there is none)
FirstNumber(text) ==
    LET d == firstDigit(text)
        e == digitRunEnd(text, d)
        fraction == e + 2 <= Len(text) /\ At(text, e + 1) = "." /\ isDigit(At(text, e + 2))
        f == digitRunEnd(text, e + 2)
    IN  IF d = 0 THEN 0
        ELSE 100 * digitsValue(text, d, e) +
             (IF ~fraction THEN 0
              ELSE IF f = e + 2 THEN 10 * digitsValue(text, e + 2, f)
              ELSE digitsValue(text, e + 2, e + 3))

\* C14: the fallback categorizer maps "I spent $25 on groceries" to expense,
\* Groceries, 25 and "Got paid $2000 salary" to income, Salary, 2000; the
\* amount is the first number found in the text (0 when there is none) and the
\* type is income exactly when an income keyword occurs in the text
C14_FallbackCategorizer ==
    (Answered /\ AIFailed) =>
        LET text == proxyReply[1].response.body.transcript
            result == proxyReply[1].response.body.analysis
        IN  /\ text = "I spent $25 on groceries" =>
                  /\ result.type = "expense"
                  /\ result.category = "Groceries"
                  /\ result.amount = 2500
            /\ text = "Got paid $2000 salary" =>
                  /\ result.type = "income"
                  /\ result.category = "Salary"
                  /\ result.amount = 200000
            /\ result.amount = FirstNumber(text)
            /\ result.type \in {"income", "expense"}
            /\ \A lowered \in {toLowerCase(text)} :
                  result.type = "income" <=>
                     \E i \in 1..Len(incomeKeywords) :
                         includes(lowered, incomeKeywords[i])

\* the number of keywords of table entry k contained in a lower-cased text
KeywordsFound(lowered, k) ==
    Cardinality({i \in 1..Len(categories[k].keywords) :
                    includes(lowered, categories[k].keywords[i])})

\* C15: the category of the fallback categorizer is the first category in
\* table order with a keyword contained in the lower-cased text; without a
\* match it is Shopping with confidence 0.5; on a match the confidence is
\* min(0.9, 0.6 + 0.1 * matching keywords of that category), never above 0.9
C15_FirstMatchWins ==
    (Answered /\ AIFailed) =>
        \A text \in {toLowerCase(proxyReply[1].response.body.transcript)} :
        LET result == proxyReply[1].response.body.analysis
            matching == {k \in 1..Len(categories) : KeywordsFound(text, k) > 0}
        IN  /\ matching = {} =>
                  result.category = "Shopping" /\ result.confidence = 5
            /\ matching # {} =>
                  LET first == CHOOSE k \in matching : \A j \in matching : k <= j
                  IN  /\ result.category = categories[first].name
                      /\ result.confidence =
                            (IF 6 + KeywordsFound(text, first) < 9
                             THEN 6 + KeywordsFound(text, first) ELSE 9)
            /\ result.confidence <= 9

C15_Witness ==
    /\ Answered
    /\ AIFailed
    /\ proxyReply[1].response.body.analysis.category = "Transport"
    /\ proxyReply[1].response.body.analysis.confidence = 9
    /\ \A text \in {toLowerCase(proxyReply[1].response.body.transcript)} :
          KeywordsFound(text, 3) = 4 /\ KeywordsFound(text, 6) > 0

\* C17: once the function has a key and a transcript, a failed chat-analysis
\* call yields the keyword-fallback result in a 200 response, never an error
\* response; a successful reply is returned with its amount replaced by the
\* absolute value
C17_ProxyFallback ==
    (/\ proxyReply # Null
     /\ proxyReply[1].request.userId # ""
     /\ proxyReply[1].key = "key"
     /\ proxyReply[1].whisper # Null
     /\ proxyReply[1].whisper # Some("")) =>
        LET text == proxyReply[1].whisper[1]
            reply == proxyReply[1].ai.analysis
            response == proxyReply[1].response
        IN  /\ response.status = 200
            /\ response.body.transcript = text
            /\ AIFailed => response.body.analysis = analyzeTranscriptFallback(text)
            /\ ~AIFailed =>
                  /\ response.body.analysis.type = reply.type
                  /\ response.body.analysis.category = reply.category
                  /\ response.body.analysis.amount = Abs(reply.amount[1])
                  /\ response.body.analysis.amount >= 0

C17_Witness ==
    /\ Answered
    /\ proxyReply[1].ai.kind = "reply"
    /\ proxyReply[1].ai.analysis.amount = Null
    /\ proxyReply[1].response.body.transcript = "I spent $25 on groceries"
    /\ proxyReply[1].response.body.analysis.category = "Groceries"
    /\ proxyReply[1].response.body.analysis.amount = 2500

----------------------------------------------------------------------------
(* Properties of TransactionRecorder (checked under SpecRecorder) *)

\* the step is the catch block of analyzeAudioWithAI running in the recorder
\* that is shown
AnalysisFailureStep == lastEvent'.op = "analysisFail" /\ lastEvent'.live

\* the request got no usable answer: fetch rejected, or the body was not JSON
NoAnswerTexts ==
    {AnalysisFailedText(FetchErrorMessage), AnalysisFailedText(JsonErrorMessage)}

\* the text is "Analysis failed: <message>. You can still add ..." for some message
IsAnalysisFailedText(text) ==
    \E n \in 0..(Len(text) - 17) : text = AnalysisFailedText(SubSeq(text, 18, 17 + n))

\* C16 as stated: when the recorder's request fails because the endpoint is
\* unreachable or its body is malformed, the recorder ends with the analysis
\* result the keyword fallback computes for what was said.
C16_Original ==
    [][(AnalysisFailureStep /\ error' \in NoAnswerTexts)
          => analysisResult' = Some(analyzeTranscriptFallback(lastEvent'.data[1]))]_vars

\* C16, amended: when the recorder's request fails (the endpoint is
\* unreachable, the body is malformed, or the function answers with an error
\* status) the recorder computes no analysis result: analysisResult and
\* transcript keep the values they had before the request (null and empty on
\* a fresh recorder), the error box reads "Analysis failed: <message>. You
\* can still add the transaction manually.", the manual form is shown and
\* loading is false.
C16_RecorderFailure ==
    [][AnalysisFailureStep
          => /\ analysisResult' = analysisResult
             /\ transcript' = transcript
             /\ IsAnalysisFailedText(error')
             /\ showManualForm'
             /\ ~loading']_vars

\* an unreachable endpoint has just been handled by a recorder that had no
\* analysis: there is still none, and the manual form is open
C16_Witness ==
    /\ lastEvent.op = "analysisFail"
    /\ lastEvent.live
    /\ lastEvent.data = <<"I spent $25 on groceries">>
    /\ error = AnalysisFailedText(FetchErrorMessage)
    /\ analysisResult = Null
    /\ showManualForm
    /\ ~loading

----------------------------------------------------------------------------
(* Failures of network and store calls (checked under SpecList) *)

\* a text the user can see: the recorder's error box, the error line of the
\* insights view, or an alert
VisibleErrorText == error # "" \/ aiRecommendationsError # "" \/ alertText # ""

\* the step is the end of a call that failed: a store call, a request to an
\* edge function, or localStorage.setItem
FailureStep ==
    \/ lastEvent'.op \in {"fetchFail", "loadLimitsFail", "editFail", "deleteFail",
                          "insertFail", "analysisFail", "generateFail"}
    \/ lastEvent'.op = "generateSuccess" /\ ~lastEvent'.wrote

\* C18: every failed network or store call ends with a user-visible error
\* text; no failure is only logged or replaced by an empty result.
C18_FailuresSurface == [][FailureStep => VisibleErrorText']_vars

----------------------------------------------------------------------------
(* Failures of the AI calls and the manual entry (checked under SpecRecorder) *)

\* the list and the inserts in flight leave room for one more row
RoomForRow == Len(transactions) + Cardinality(saves) < MaxAppRows

\* the manual entry form can be reached and, once shown and not loading,
\* submitted
ManualEntryAvailable ==
    /\ activeTab = "insights" => ENABLED UnmountInsights("record")
    /\ (activeTab = "record" /\ ~showManualForm) => ENABLED OpenManualForm
    /\ (activeTab = "record" /\ showManualForm /\ ~loading /\ RoomForRow)
          => ENABLED (\E amount \in FormAmounts :
                         saveManualTransaction(Row("expense", "Groceries", amount)))

\* after the catch block of analyzeAudioWithAI ran in the recorder shown:
\* loading is false and the manual form is open
AfterAnalysisFailure ==
    (lastEvent.op = "analysisFail" /\ lastEvent.live) => (~loading /\ showManualForm)

\* a failed generation clears isRefreshingAI of the view that asked for it and
\* touches neither the recorder nor the list
GenerationFailureStep ==
    lastEvent'.op = "generateFail"
       => /\ lastEvent'.live => ~isRefreshingAI'
          /\ UNCHANGED <<recorderVars, transactions>>

\* an insert the store accepted is put at the head of the in-memory list,
\* whether or not the recorder that sent it is still shown
InsertedStep ==
    lastEvent'.op = "inserted"
       => \E s \in saves :
             /\ saves' = saves \ {s}
             /\ Len(transactions') = Len(transactions) + 1
             /\ Tail(transactions') = transactions
             /\ Row(Head(transactions').type, Head(transactions').category,
                    Head(transactions').amount) = s.row

\* C19: a failed audio analysis or a failed recommendation generation never
\* blocks transaction CRUD: after the failure the loading flag is false, the
\* manual entry form is available, and a manually entered transaction can be
\* sent to the store and, once accepted, is added to the in-memory list.
C19_CrudNotBlocked ==
    /\ [](AfterAnalysisFailure /\ ManualEntryAvailable)
    /\ [][GenerationFailureStep /\ InsertedStep]_vars

\* after a failed analysis, with its error text still shown, the manual form
\* has been submitted and the insert is on its way to the store
C19_Witness ==
    /\ IsAnalysisFailedText(error)
    /\ showManualForm
    /\ loading
    /\ \E s \in saves : s.kind = "manual" /\ s.live

----------------------------------------------------------------------------
(* The amounts written to the store (checked under SpecRecorder) *)

\* C20: every transaction the application writes to the store, through
\* saving a voice analysis result, through the manual entry form, or through
\* the edit form, has amount > 0.
C20_PositiveAmounts == lastWrite # Null => lastWrite[1].amount > 0

----------------------------------------------------------------------------
(* Properties of BudgetLimitsManager (checked under SpecBudget) *)

\* the stored budget limits of a user, as category and limit
StoredFor(table, userId) ==
    {Limit(row.category, row.monthly_limit) : row \in {r \in table : r.user_id = userId}}

ListRows(limits) == {limits[i] : i \in 1..Len(limits)}

\* every stored limit is positive and no user has two limits for a category
StoredLimitsValid ==
    /\ \A row \in storedLimits : row.monthly_limit > 0
    /\ \A r1, r2 \in storedLimits :
          (r1.user_id = r2.user_id /\ r1.category = r2.category) => r1 = r2

\* the step in which saveBudgetLimits reports success
SaveReportedStep == lastEvent'.op = "saveLimits"

AtInsertStep == saveJob # Null /\ saveJob[1].step = "insert"

IsErrorBody(body) == DOMAIN body = {"error"} /\ body.error # ""

\* the success payload of an endpoint
IsSuccessPayload(endpoint, body) ==
    IF endpoint = "ai-insights"
    THEN DOMAIN body = {"recommendations"}
    ELSE /\ DOMAIN body = {"transcript", "analysis"}
         /\ DOMAIN body.analysis
               = {"type", "category", "amount", "description", "confidence"}

\* the lookups of the request showed an active Pro subscription
ProSeen(s) ==
    /\ s.subscription = "active"
    /\ s.backend.subscriptions = "ok"
    /\ s.endpoint = "ai-insights" => s.backend.customers = "ok"

\* no key is available to the request: the server's key is not configured for
\* a user seen as Pro, or a user not seen as Pro has no stored key or the
\* profile cannot be read
NoKeyAvailable(s) ==
    IF ProSeen(s) THEN s.backend.serverKey = ""
    ELSE s.stored = "" \/ s.backend.profile # "ok"

\* C22: each endpoint answers OPTIONS with 200, any other non-POST method with
\* 405 and an {error} body, and a POST with 200 and the success payload or
\* with a non-2xx status and an {error} body; a POST without userId or with no
\* API key available never yields 200 and never reaches the AI provider.
C22_EndpointResponses ==
    lastServed # Null =>
        LET s == lastServed[1]
            r == s.exchange.response
        IN  /\ s.method = "OPTIONS" => r.status = 200
            /\ s.method \notin {"OPTIONS", "POST"}
                  => r.status = 405 /\ IsErrorBody(r.body)
            /\ s.method # "POST" => s.exchange.openaiCalls = {}
            /\ s.method = "POST"
                  => \/ r.status = 200 /\ IsSuccessPayload(s.endpoint, r.body)
                     \/ r.status \notin 200..299 /\ IsErrorBody(r.body)
            /\ (s.method = "POST" /\ (~s.json \/ s.userId = "" \/ NoKeyAvailable(s)))
                  => r.status # 200 /\ s.exchange.openaiCalls = {}

\* a POST of ai-insights for a user without subscription and without stored
\* key was answered with the 'key not available' error
C22_Witness ==
    /\ lastServed # Null
    /\ lastServed[1].endpoint = "ai-insights"
    /\ lastServed[1].method = "POST"
    /\ lastServed[1].json
    /\ lastServed[1].userId = "userA"
    /\ lastServed[1].stored = ""
    /\ lastServed[1].backend.profile = "ok"
    /\ lastServed[1].exchange.response = ErrorResponse(KeyNotAvailable)

\* the Dashboard's content (tabs, recorder, insights) is rendered
DashboardShown == ~checkingApiKey /\ hasOpenAIKey

\* C23: a user with an active Pro subscription and no personal OpenAI key in
\* the profile reaches the Dashboard once the key check has answered.
C23_ProReachesDashboard ==
    (subscriptionStatus = "active" /\ profileKey = "" /\ ~checkingApiKey)
        => DashboardShown

ReplacedAt(a, b, id) ==
    /\ Len(b) = Len(a)
    /\ \E i \in 1..Len(a) :
          /\ a[i].id = id
          /\ b[i].id = id
          /\ \A j \in 1..Len(a) : j # i => b[j] = a[j]

\* list b is list a without the entry of the given id, the rest in order
RemovedAt(a, b, id) ==
    \E i \in 1..Len(a) :
        /\ a[i].id = id
        /\ b = SubSeq(a, 1, i - 1) \o SubSeq(a, i + 1, Len(a))

\* C25: when the store rejects an edit or a delete the in-memory list is
\* unchanged; when it accepts, exactly the entry with that id is replaced
\* (edit) or removed (delete), every other entry and the order are unchanged.
C25_EditDeleteExact ==
    [][/\ lastEvent'.op \in {"editFail", "deleteFail"}
             => transactions' = transactions
       /\ lastEvent'.op = "edited"
             => /\ lastWrite' # Null
                /\ \E id \in TxIds :
                      /\ ReplacedAt(transactions, transactions', id)
                      /\ \A i \in 1..Len(transactions') :
                            transactions'[i].id = id
                               => transactions'[i].amount = lastWrite'[1].amount
       /\ lastEvent'.op = "deleted"
             => \E id \in TxIds : RemovedAt(transactions, transactions', id)]_vars

\* the middle row of a list of three was deleted
C25_Witness ==
    /\ lastEvent.op = "deleted"
    /\ transactions = <<TxUniverse[1], TxUniverse[3]>>

(* Properties of the month totals (checked under SpecTotals) *)

\* the sum of the rows of a type created in the calendar month of today, in
\* today's year
MonthOfYearTotal(txs, type, today) ==
    SumAmounts(SelectSeq(txs, LAMBDA t :
        /\ t.type = type
        /\ getMonth(t.created_at) = getMonth(today)
        /\ getFullYear(t.created_at) = getFullYear(today)))

\* C26: 'This Month Income' and 'This Month Expenses' equal the sums of the
\* income, respectively expense, transactions created in the current calendar
\* month of the current year.
C26_ThisMonthTotals ==
    \A type \in {"income", "expense"} :
        thisMonthTotal(transactions, type, Today(now))
            = MonthOfYearTotal(transactions, type, Today(now))

(* Properties of the recommendation cache and of its requests (checked      *)
(* under Spec)                                                              *)

\* C27: in every reachable state of the insights view, when the in-memory
\* cache record is not null the displayed recommendations are the record's
\* data and the last-refresh time is set; when the view is not shown there is
\* no record.
C27_RecordMatchesDisplay ==
    /\ cachedAIRecommendations # Null
          => /\ Mounted
             /\ aiRecommendations = cachedAIRecommendations[1].data
             /\ lastAIRefresh # Null
    /\ ~Mounted => cachedAIRecommendations = Null

\* the view shows recommendations that came from its record
C27_Witness ==
    /\ Mounted
    /\ cachedAIRecommendations # Null
    /\ aiRecommendations # <<>>
    /\ aiRecommendations = cachedAIRecommendations[1].data
    /\ lastAIRefresh # Null

\* within one mounted instance: at most one request of an instance is in
\* flight, and the refreshing flag is true exactly while the request of the
\* mounted instance is pending
SingleFlightPerInstance ==
    /\ \A r1, r2 \in inflight : r1.inst = r2.inst => r1 = r2
    /\ (Mounted /\ isRefreshingAI) <=> (\E r \in inflight : Live(r))

\* a failure leaves the stored entry and the displayed list as they were, and
\* while a refresh is pending the stored entry changes only when a generation
\* succeeds
FailureWritesNothing ==
    [][/\ lastEvent'.op = "generateFail"
             => storage' = storage /\ aiRecommendations' = aiRecommendations
       /\ (Mounted /\ isRefreshingAI /\ storage' # storage)
             => lastEvent'.op = "generateSuccess"]_vars

\* C28: after a manual refresh whose generation fails the stored cache entry
\* is absent, even if a still-valid entry existed before the refresh, while
\* the recommendations displayed before stay on screen (a view loaded with no
\* stored entry shows no recommendations).
C28_FailedRefreshLeavesNoEntry ==
    [][/\ (lastEvent'.op = "generateFail" /\ lastEvent'.live)
             => /\ storage' = NoEntry
                /\ aiRecommendations' = aiRecommendations
       /\ (lastEvent'.op = "load" /\ storage = NoEntry)
             => aiRecommendations' = <<>>]_vars

\* C30: at most one recommendation request is in flight at any time: a manual
\* refresh starts only while the refreshing flag is false and sends exactly
\* one request, a failure sends none, and the refreshing flag is false after
\* every generation that completes or fails.
C30_SingleFlight ==
    /\ [](Cardinality(inflight) <= 1)
    /\ [][/\ lastEvent'.op = "manualRefresh"
                => ~isRefreshingAI /\ reqCount' = reqCount + 1
          /\ lastEvent'.op = "generateFail" => reqCount' = reqCount
          /\ lastEvent'.op \in {"generateSuccess", "generateFail"}
                => ~isRefreshingAI']_vars

====
